---- MODULE Spec2Model ----
(***************************************************************************)
(* Model of the asynchronous logging pipeline of lyf::Logger:              *)
(*   producers (LogSubmit, Sync, thread exit)  ->  LogQueue  ->  worker    *)
(*   (AsyncLogger::WorkerLoop)  ->  sinks,  with the BufferPool and the    *)
(*   per-thread ThreadLocalBufferCache, and Logger::Shutdown.              *)
(***************************************************************************)
EXTENDS Naturals, Integers, Sequences, FiniteSets, TLC

(* ------------------------------ bounds --------------------------------- *)
MaxSubmit == 1         \* LogSubmit calls the producers make in all, in Spec
MaxSync == 1           \* Logger::Sync and Flush calls the producers make in all, in Spec
RunSubmit == 2         \* LogSubmit calls the producers make in all, in SpecRun
ReSubmit == 3          \* LogSubmit calls the producers make in all, in SpecReinit
LvSubmit == 2          \* LOG_BASE calls the producers make in all, in SpecLevel
MaxReinit == 1         \* Logger::Init calls after the first one, in SpecReinit
RunSync == 2           \* Logger::Sync calls the producers make in all, in SpecRun
NumSinks == 2          \* sinks attached with AddSink before logging starts
PoolSize == 2          \* buffer_pool_size of the configuration
TlsCount == 2          \* tls_buffer_count of the configuration
BatchSize == 2         \* worker_batch_size of the configuration
QueueCapacity == 1     \* the non-zero queue_capacity of the configuration
BlockTimeout == 1      \* the finite queue_block_timeout_us of the configuration

MaxIndex == 4          \* largest N of a rotated name <log_path>_<N> the model reaches
MaxKeepFiles == 2      \* largest max_rotate_files of the configuration
PreIndex == 2          \* largest N of a rotated file left by an earlier run
TicksPerDay == 2       \* clock readings the model distinguishes within a day
MaxClock == 5          \* the last clock reading (three days)
MaxFileMiB == 2        \* the active file is not written beyond this size
MaxAddSink == 1        \* sinks attached with AddSink while the logger runs
MaxRotations == 3      \* rotateLogFile calls of the legacy AsyncLogSystem
LegacyMaxCount == 2    \* largest rotation.maxFileCount of the legacy AsyncLogSystem
LegacyClock == 2       \* the last clock reading of the legacy AsyncLogSystem

(* ------------------------- program constants --------------------------- *)
NULL == 0
DEBUG == 0                       \* LogLevel::DEBUG
INFO == 1                        \* LogLevel::INFO
WARN == 2                        \* LogLevel::WARN
FLUSH == 99                      \* LogLevel::FLUSH
Levels == {DEBUG, INFO, WARN}    \* the levels the application logs at
NoFile == -1                     \* the path does not exist
MiB == 1024 * 1024               \* ApplyConfig: GetRotateSizeMB() * 1024 * 1024
RotateSizesMB == {0, 1}          \* rotate_size_mb of the configuration
LineLens == {MiB \div 2, MiB}    \* bytes the formatter produces per Log call
Days == 0..(MaxClock \div TicksPerDay)      \* the local days the clock reaches
Names == 0..(MaxIndex + 1 + MaxClock \div TicksPerDay)  \* the paths <log_path>*
SIZE == 4096                     \* LogBuffer::SIZE = LogConfig::kPerLogMaxSize
kMaxBlockTimeout_us == 1000000   \* stands for microseconds::max(): never exceeded
MaxElapsed == BlockTimeout + 1   \* the clock readings the model distinguishes

MAIN == 0                        \* the thread that calls Logger::Shutdown
Producers == {1, 2}              \* the application threads that log
Threads == {MAIN} \cup Producers
Sinks == 1..NumSinks

VARIABLES
  cfg,            \* QueConfig: capacity, full_policy, block_timeout_us
  impl_,          \* Logger::impl_ (NULL or the AsyncLogger)
  buffer_pool_,   \* Logger::buffer_pool_ (NULL or the BufferPool)
  implLive,       \* the AsyncLogger object has not been destroyed
  poolLive,       \* the BufferPool object has not been destroyed
  running_,       \* AsyncLogger::running_
  que_,           \* LogQueue::que_: one FIFO sub-queue per producing thread
  drop_cnt_,      \* AsyncLogger::drop_cnt_
  wpc,            \* position of the worker thread in WorkerLoop
  buffer_batch,   \* WorkerLoop's local vector of dequeued messages
  bpos,           \* index of the range-for over buffer_batch
  sinkOut,        \* per sink: the records passed to Log, in order
  sinkFlushed,    \* per sink: how many of them a Flush has covered
  pool_,          \* BufferPool::pool_: the free buffers
  allocated,      \* number of LogBuffer objects ever created with new
  cache,          \* per thread: ThreadLocalBufferCache::cache
  tlsPool,        \* per thread: ThreadLocalBufferCache::pool_ (NULL: not constructed)
  pc,             \* per thread: position in LogSubmit / Sync
  msg,            \* per thread: the LogMessage local to LogSubmit
  elapsed,        \* per thread: steady_clock::now() - start in HandleBackPressure
  promise,        \* per thread: the std::promise of its Sync call has a value
  apc,            \* position of the main thread in Logger::Shutdown
  ub,             \* "no", or what an access to a destroyed object led to
  quota,          \* the LogSubmit, Sync or Flush, and further Init calls yet to be made
  nsub,           \* history: LogSubmit calls made per thread
  nsync,          \* history: Sync calls made per thread
  ignored,        \* history: LogSubmit calls that returned at the null check
  committed,      \* history: records whose Commit returned true
  rejected,       \* history: records whose Commit returned false
  syncPrior,      \* history: per thread, `committed` when its barrier was enqueued
  syncState,      \* history: per thread, how its last Sync call ended
  level_,         \* LogConfig::level_ of owned_config_: the threshold
  levelLog,       \* history: level, threshold and outcome of every LOG_BASE call
  file_,          \* FileSink::file_ (NULL or the open FILE)
  files,          \* the directory: size of <log_path> (index 0), of
                  \* <log_path>_<N> (index N) and of <log_path><date>
                  \* (index DateName(day)), NoFile when the path does not exist
  current_file_size_,  \* FileSink::current_file_size_
  rotate_files_,       \* FileSink::rotate_files_, as the indices N of the names
  rotate_i,            \* the static int i of FileSink::GenerateRotatedName
  max_rotate_files_,   \* FileSink::max_rotate_files_
  rotate_size_bytes_,  \* FileSink::rotate_size_bytes_
  rotate_policy_,      \* FileSink::rotate_policy_
  next_rotation_tp_,   \* FileSink::next_rotation_tp_
  clock,               \* the wall clock std::time(nullptr) reads
  written,             \* history: per path, the days its records were written on
  fs_fail,             \* the file system calls that fail at present
  terminated,          \* an exception left the worker thread: std::terminate
  fpc,                 \* the worker is inside FileSink::Log ("log") or not ("idle")
  length,              \* LogBuffer::length of the buffer each producer formats into
  owned_config_,       \* the settings of Logger::owned_config_ other than level_
  last_load,           \* history: the last LoadFromFile call and what it returned
  tpc,                 \* position of the timer thread in TimerLoop
  legacy               \* the AsyncLogSystem of LogSystem.h: its fields and its log directory

fileVars == <<file_, files, current_file_size_, rotate_files_, rotate_i,
              max_rotate_files_, rotate_size_bytes_, rotate_policy_,
              next_rotation_tp_, clock, written, fs_fail, terminated, fpc>>

\* what the actions of the pipeline leave alone
sideVars == <<fileVars, length, owned_config_, last_load, tpc, legacy>>

vars == <<sideVars, cfg, impl_, buffer_pool_, implLive, poolLive, running_, que_, drop_cnt_,
          wpc, buffer_batch, bpos, sinkOut, sinkFlushed, pool_, allocated, cache,
          tlsPool, pc, msg, elapsed, promise, apc, ub, quota, nsub, nsync, ignored,
          committed, rejected, syncPrior, syncState, level_, levelLog>>

pipeVars ==
  <<cfg, impl_, buffer_pool_, implLive, poolLive, running_, que_, drop_cnt_,
    wpc, buffer_batch, bpos, sinkOut, sinkFlushed, pool_, allocated, cache,
    tlsPool, pc, msg, elapsed, promise, apc, ub, quota, nsub, nsync, ignored,
    committed, rejected, syncPrior, syncState, level_, levelLog, length,
    owned_config_, last_load>>

\* pipeVars but for ub and length
pipeRest ==
  <<cfg, impl_, buffer_pool_, implLive, poolLive, running_, que_, drop_cnt_,
    wpc, buffer_batch, bpos, sinkOut, sinkFlushed, pool_, allocated, cache,
    tlsPool, pc, msg, elapsed, promise, apc, quota, nsub, nsync, ignored,
    committed, rejected, syncPrior, syncState, level_, levelLog, owned_config_, last_load>>

loggerVars == <<impl_, buffer_pool_, implLive, poolLive, running_, apc>>
workerVars == <<wpc, buffer_batch, bpos>>
sinkVars == <<sinkOut, sinkFlushed>>
bufVars == <<pool_, allocated, cache, tlsPool>>
histVars == <<nsub, nsync, ignored, committed, rejected, syncPrior, syncState>>

(* ------------------------------ values --------------------------------- *)
\* the log_*.txt names of the legacy log directory: <<0, date, 0>> is
\* log_<date>.txt, <<1, second, n>> is log_<date>_<time>_<n>.txt, and second -1
\* stands for a file an earlier run left
LegacyNames ==
  {<<0, d, 0>> : d \in 0..(LegacyClock \div TicksPerDay)}
    \cup {<<1, sec, n>> : sec \in -1..LegacyClock, n \in 0..MaxRotations}

\* the AsyncLogSystem before AsyncLogSystem::Init
NoLegacy ==
  [files |-> [n \in LegacyNames |-> NoFile], open |-> FALSE,
   currentLogFilePath_ |-> <<0, 0, 0>>, lastRotationDate_ |-> 0,
   rotationType_ |-> "BY_SIZE_AND_TIME", maxFileCount |-> 0, rotateCounts_ |-> 0,
   isRotating_ |-> FALSE, rotating |-> {}, calls |-> 0, now |-> 0]

NoMsg == [level |-> -1, tid |-> 0, seq |-> 0, buf |-> NULL]

\* LogMessage(level, file, line, hash_tid, now, buf, buffer_pool)
LogMessage(lv, t, n, b) == [level |-> lv, tid |-> t, seq |-> n, buf |-> b]

\* mutant of FlushMessage: the barrier is given the level of a record
FlushMessageAsRecord(t) == [level |-> INFO, tid |-> t, seq |-> 0, buf |-> NULL]

\* LogMessage(std::promise<void> *prom): level FLUSH, no buffer
FlushMessage(t) == [level |-> FLUSH, tid |-> t, seq |-> 0, buf |-> NULL]

RecId(m) == <<m.tid, m.seq>>

Range(s) == {s[i] : i \in 1..Len(s)}

RECURSIVE SumLen(_, _)
SumLen(q, ts) ==
  IF ts = {} THEN 0
  ELSE LET t == CHOOSE x \in ts : TRUE IN Len(q[t]) + SumLen(q, ts \ {t})

\* the buffers owned by the messages of a sequence, in order (FLUSH owns none)
RECURSIVE BufsOf(_)
BufsOf(s) ==
  IF s = <<>> THEN <<>>
  ELSE IF Head(s).buf = NULL THEN BufsOf(Tail(s))
  ELSE <<Head(s).buf>> \o BufsOf(Tail(s))

RECURSIVE Concat(_, _)
Concat(q, ord) ==
  IF ord = <<>> THEN <<>> ELSE q[Head(ord)] \o Concat(q, Tail(ord))

\* moodycamel::ConcurrentQueue::size_approx
size_approx(q) == SumLen(q, Threads)

\* moodycamel::ConcurrentQueue::enqueue by thread t: appended to t's sub-queue
enqueue(q, t, m) == [q EXCEPT ![t] = Append(@, m)]

\* the orders in which try_dequeue_bulk may visit the sub-queues
Orders == {<<MAIN, 1, 2>>, <<MAIN, 2, 1>>, <<1, MAIN, 2>>, <<1, 2, MAIN>>,
           <<2, MAIN, 1>>, <<2, 1, MAIN>>}

\* moodycamel::ConcurrentQueue::try_dequeue_bulk: up to max items, sub-queue by
\* sub-queue in the order ord, each sub-queue in FIFO order
try_dequeue_bulk(q, ord, max) ==
  LET all == Concat(q, ord)
      n == IF Len(all) < max THEN Len(all) ELSE max
  IN SubSeq(all, 1, n)

\* what try_dequeue_bulk leaves in the queue after taking `out`
Remaining(q, out) ==
  [t \in Threads |->
     LET k == Cardinality({i \in 1..Len(out) : out[i].tid = t})
     IN SubSeq(q[t], k + 1, Len(q[t]))]

\* LogQueue::PopBatch
PopBatch(q, ord, batch_size) == try_dequeue_bulk(q, ord, batch_size)

\* mutant of NeedBackPressure: the force flag is not looked at
NeedBackPressureForced(c, size, force) == c.capacity > 0 /\ size >= c.capacity

\* mutant of NeedBackPressure: the capacity > 0 test is missing
NeedBackPressureNoZeroTest(c, size, force) == size >= c.capacity /\ ~force

\* LogQueue::Push, the test that sends a message to HandleBackPressure
NeedBackPressure(c, size, force) == c.capacity > 0 /\ size >= c.capacity /\ ~force

\* BufferPool::AllocBatch: pool_.try_dequeue_bulk(back_inserter(out), count)
AllocBatchCount(p, count) == IF Len(p) < count THEN Len(p) ELSE count

\* mutant of Free: the buffer is not put back
FreeLost(p, b) == p

\* BufferPool::Free
Free(p, b) == IF b # NULL THEN Append(p, b) ELSE p

\* BufferPool::FreeBatch
FreeBatch(p, bufs) == IF bufs # <<>> THEN p \o bufs ELSE p

\* mutant of LogSubmitIgnored: the null check is missing
LogSubmitNeverIgnored(logger, buffer_pool) == FALSE

\* LogSubmit: the early return when the logger or the pool is absent
LogSubmitIgnored(logger, buffer_pool) == logger = NULL \/ buffer_pool = NULL

Configs ==
  {[capacity |-> 0, full_policy |-> "DROP", block_timeout_us |-> 0],
   [capacity |-> 0, full_policy |-> "BLOCK", block_timeout_us |-> kMaxBlockTimeout_us],
   [capacity |-> QueueCapacity, full_policy |-> "DROP", block_timeout_us |-> 0],
   [capacity |-> QueueCapacity, full_policy |-> "BLOCK", block_timeout_us |-> BlockTimeout],
   [capacity |-> QueueCapacity, full_policy |-> "BLOCK",
    block_timeout_us |-> kMaxBlockTimeout_us]}

(* ------------------------------ LogConfig ------------------------------ *)

\* the keys of the configuration file other than logger.level
QueueKeys == {"full_policy", "worker_batch_size", "queue_capacity",
              "queue_block_timeout_us", "buffer_pool_size", "tls_buffer_count"}
SinkKeys == {"file_buffer_size_kb", "log_path", "rotate_policy", "rotate_size_mb",
             "max_rotate_files", "console_buffer_size_kb"}
Keys == QueueKeys \cup SinkKeys \cup {"time_format", "reload_interval_ms"}

\* LogConfig's member initialisers
Defaults ==
  [full_policy |-> "BLOCK", time_format |-> "%Y-%m-%d %H:%M:%S",
   worker_batch_size |-> 2048, queue_capacity |-> 65536,
   queue_block_timeout_us |-> kMaxBlockTimeout_us, buffer_pool_size |-> 65536,
   tls_buffer_count |-> 64, file_buffer_size |-> 128 * 1024,
   log_path |-> "logfile.log", rotate_policy |-> "NONE", rotate_size_mb |-> 1024,
   max_rotate_files |-> 7, console_buffer_size |-> 1024,
   reload_interval_ms |-> 1000]

\* no LoadFromFile call has been made
NoLoad ==
  [apply_all |-> TRUE, ok |-> TRUE,
   file |-> [kind |-> "none", level |-> <<>>, keys |-> [k \in Keys |-> <<>>]]]

\* the value a file gives a key: an integer n, or the string meant by n
\* (negative: an empty or unknown one)
FileValue(k, n) ==
  IF k \notin {"full_policy", "log_path", "rotate_policy", "time_format"} THEN n
  ELSE IF k = "full_policy" THEN (IF n < 0 THEN "junk" ELSE "DROP")
  ELSE IF k = "rotate_policy" THEN (IF n < 0 THEN "junk" ELSE "SIZE")
  ELSE IF k = "time_format" THEN (IF n < 0 THEN "" ELSE "%H:%M")
  ELSE (IF n < 0 THEN "" ELSE "app.log")

\* the configuration files: missing, cut off by a syntax error after some
\* keys, or well-formed; each gives logger.level or not (<<>>: key absent) and
\* gives the keys of some of the groups, the integers all n
ConfigFiles ==
  {[kind |-> "missing", level |-> <<>>, keys |-> [k \in Keys |-> <<>>]]} \cup
  {[kind |-> kd, level |-> lv,
    keys |-> [k \in Keys |-> IF k \in g THEN <<FileValue(k, n)>> ELSE <<>>]] :
     kd \in {"ok", "malformed"},
     lv \in {<<>>, <<"WARN">>, <<"BAD">>},
     g \in {{}, QueueKeys, SinkKeys, Keys},
     n \in {-1, 8}}

\* no FileSink is attached: the sinks of the pipeline only record what they get
NoFileSink ==
  /\ file_ = NULL
  /\ files = [n \in Names |-> NoFile]
  /\ current_file_size_ = 0
  /\ rotate_files_ = <<>>
  /\ rotate_policy_ = "NONE"
  /\ next_rotation_tp_ = 0
  /\ clock = 0
  /\ written = [n \in Names |-> {}]
  /\ fs_fail = {}
  /\ terminated = FALSE
  /\ fpc = "idle"
  /\ rotate_i = 1
  /\ max_rotate_files_ = 0
  /\ rotate_size_bytes_ = 0

\* after Logger::Init(cfg) and AddSink for every sink
LoggerStarted ==
  /\ impl_ = 1 /\ buffer_pool_ = 1 /\ implLive = TRUE /\ poolLive = TRUE
  /\ running_ = TRUE
  /\ que_ = [t \in Threads |-> <<>>]
  /\ drop_cnt_ = 0
  /\ wpc = "loop" /\ buffer_batch = <<>> /\ bpos = 1
  /\ sinkOut = [s \in Sinks |-> <<>>]
  /\ sinkFlushed = [s \in Sinks |-> 0]
  /\ pool_ = [i \in 1..PoolSize |-> i]
  /\ allocated = PoolSize
  /\ cache = [t \in Producers |-> <<>>]
  /\ tlsPool = [t \in Producers |-> NULL]
  /\ pc = [t \in Producers |-> "idle"]
  /\ msg = [t \in Producers |-> NoMsg]
  /\ elapsed = [t \in Producers |-> 0]
  /\ promise = [t \in Threads |-> FALSE]
  /\ apc = "run"
  /\ ub = "no"
  /\ nsub = [t \in Producers |-> 0]
  /\ nsync = [t \in Producers |-> 0]
  /\ ignored = 0
  /\ committed = {}
  /\ rejected = {}
  /\ syncPrior = [t \in Threads |-> {}]
  /\ syncState = [t \in Threads |-> "none"]
  /\ level_ = INFO
  /\ length = [t \in Producers |-> 0]
  /\ owned_config_ = Defaults
  /\ last_load = NoLoad
  /\ levelLog = {}
  /\ tpc = "loop"

\* the logger after Logger::Init; the legacy AsyncLogSystem is not in use
Started == LoggerStarted /\ legacy = NoLegacy

Init ==
  /\ cfg \in {c \in Configs : c.capacity > 0 /\ c.block_timeout_us < kMaxBlockTimeout_us}
  /\ quota = [submit |-> MaxSubmit, sync |-> MaxSync, init |-> 0]
  /\ Started
  /\ NoFileSink

\* the process has not been brought down by an access to a destroyed object
Alive == ub = "no" /\ ~terminated

(* ------------------------- producer: LogSubmit ------------------------- *)

\* ThreadLocalBufferCache::Get: the buffer returned, the cache, the pool and
\* the number of buffers allocated afterwards
Get(c, p, a) ==
  IF c # <<>>
  THEN \* cache.back(); cache.pop_back()
       [buf |-> c[Len(c)], cache |-> SubSeq(c, 1, Len(c) - 1), pool |-> p, allocated |-> a]
  ELSE LET count == AllocBatchCount(p, TlsCount)
           got == SubSeq(p, 1, count)
       IN IF count > 0
          THEN [buf |-> got[count], cache |-> SubSeq(got, 1, count - 1),
                pool |-> SubSeq(p, count + 1, Len(p)), allocated |-> a]
          ELSE \* return new LogBuffer()
               [buf |-> a + 1, cache |-> c, pool |-> p, allocated |-> a + 1]

\* a call on a destroyed AsyncLogger or BufferPool: the process crashes, or the
\* call's writes land in freed memory and are lost
UbOutcomes == {"crashed", "silent"}

\* mutant of PassesLevel: a call at the threshold itself is filtered out
PassesLevelAbove(threshold, lv) == threshold < lv

\* LOG_BASE: if (Logger::Instance().GetLevel() <= level)
PassesLevel(threshold, lv) == threshold <= lv

\* LOG_BASE with a level below the threshold: LogSubmit is not called
LogFiltered(t, lv) ==
  /\ Alive /\ pc[t] = "idle"
  /\ quota.submit > 0
  /\ ~PassesLevel(level_, lv)
  /\ quota' = [quota EXCEPT !.submit = @ - 1]
  /\ levelLog' = levelLog \cup {[lv |-> lv, threshold |-> level_, submitted |-> FALSE]}
  /\ UNCHANGED <<sideVars, cfg, level_, loggerVars, que_, drop_cnt_, workerVars, sinkVars, bufVars, pc,
                 msg, elapsed, promise, ub, histVars>>

\* Logger::SetLevel
SetLevel(lv) ==
  /\ Alive
  /\ level_ # lv
  /\ level_' = lv
  /\ UNCHANGED <<quota, sideVars, cfg, levelLog, loggerVars, que_, drop_cnt_, workerVars, sinkVars,
                 bufVars, pc, msg, elapsed, promise, ub, histVars>>

\* the BufferPool a thread_local cache points to is the logger's live pool
PointsToLive(p, current, live) == p # NULL /\ p = current /\ live

\* ThreadLocalBufferCache::Get goes to pool_->AllocBatch on a destroyed pool:
\* the cache is empty and was constructed with the pool of an earlier Init
GetOnDeadPool(t) ==
  /\ cache[t] = <<>>
  /\ tlsPool[t] # NULL
  /\ ~PointsToLive(tlsPool[t], buffer_pool_, poolLive)

\* LogSubmit up to the size test of LogQueue::Push: the null check, the
\* thread_local cache (constructed on the first call), Get, the construction of
\* msg, and Commit -> Push(msg, false) as far as the choice between enqueue and
\* HandleBackPressure (DROP returns false at once)
LogSubmitBegin(t, lv) ==
  /\ Alive /\ pc[t] = "idle"
  /\ quota.submit > 0
  /\ PassesLevel(level_, lv)
  /\ levelLog' = levelLog \cup {[lv |-> lv, threshold |-> level_, submitted |-> TRUE]}
  /\ LogSubmitIgnored(impl_, buffer_pool_) \/ ~GetOnDeadPool(t)
  /\ quota' = [quota EXCEPT !.submit = @ - 1]
  /\ IF LogSubmitIgnored(impl_, buffer_pool_)
     THEN /\ ignored' = ignored + 1
          /\ UNCHANGED <<bufVars, pc, msg, nsub, elapsed, rejected>>
     ELSE LET n == nsub[t] + 1
              g == Get(cache[t], pool_, allocated)
          IN /\ tlsPool' = [tlsPool EXCEPT ![t] = IF @ = NULL THEN buffer_pool_ ELSE @]
             /\ nsub' = [nsub EXCEPT ![t] = n]
             /\ ignored' = ignored
             /\ msg' = [msg EXCEPT ![t] = LogMessage(lv, t, n, g.buf)]
             /\ cache' = [cache EXCEPT ![t] = g.cache]
             /\ pool_' = g.pool
             /\ allocated' = g.allocated
             /\ elapsed' = [elapsed EXCEPT ![t] = 0]
             /\ IF NeedBackPressure(cfg, size_approx(que_), FALSE)
                THEN IF cfg.full_policy = "DROP"
                     THEN /\ pc' = [pc EXCEPT ![t] = "rejected"]
                          /\ rejected' = rejected \cup {<<t, n>>}
                     ELSE /\ pc' = [pc EXCEPT ![t] = "block"]
                          /\ UNCHANGED rejected
                ELSE /\ pc' = [pc EXCEPT ![t] = "enqueue"]
                     /\ UNCHANGED rejected
  /\ UNCHANGED <<sideVars, cfg, level_, loggerVars, que_, drop_cnt_, workerVars, sinkVars,
                 promise, ub, nsync, committed, syncPrior, syncState>>

\* LogSubmit past the null check on a thread whose thread_local cache is empty
\* and still points to the pool of an earlier Init: AllocBatch runs on a
\* destroyed BufferPool
LogSubmitStalePool(t, lv) ==
  /\ Alive /\ pc[t] = "idle"
  /\ quota.submit > 0
  /\ PassesLevel(level_, lv)
  /\ levelLog' = levelLog \cup {[lv |-> lv, threshold |-> level_, submitted |-> TRUE]}
  /\ ~LogSubmitIgnored(impl_, buffer_pool_) /\ GetOnDeadPool(t)
  /\ quota' = [quota EXCEPT !.submit = @ - 1]
  /\ nsub' = [nsub EXCEPT ![t] = @ + 1]
  /\ \E o \in UbOutcomes : ub' = o
  /\ UNCHANGED <<sideVars, cfg, level_, loggerVars, que_, drop_cnt_, workerVars, sinkVars, bufVars, pc, msg,
                 elapsed, promise, nsync, ignored, committed, rejected, syncPrior,
                 syncState>>

\* que_.enqueue(std::move(msg)) returning true; msg is left moved-from
PushEnqueue(t) ==
  /\ Alive /\ pc[t] = "enqueue" /\ implLive
  /\ que_' = enqueue(que_, t, msg[t])
  /\ committed' = committed \cup {RecId(msg[t])}
  /\ msg' = [msg EXCEPT ![t] = NoMsg]
  /\ pc' = [pc EXCEPT ![t] = "idle"]
  /\ UNCHANGED <<quota, sideVars, cfg, level_, levelLog, loggerVars, drop_cnt_, workerVars, sinkVars, bufVars, elapsed,
                 promise, ub, nsub, nsync, ignored, rejected, syncPrior, syncState>>

\* mutant of TimedOut: the wait is given up as soon as the timeout is reached
TimedOutAtLimit(now, timeout_us) == now >= timeout_us

\* HandleBackPressure: the timeout test, elapsed microseconds > block_timeout_us
TimedOut(now, timeout_us) == now > timeout_us

\* HandleBackPressure, BLOCK policy: one pass of the while (true) loop
BlockLoop(t) ==
  /\ Alive /\ pc[t] = "block" /\ implLive
  /\ IF size_approx(que_) < cfg.capacity
     THEN /\ pc' = [pc EXCEPT ![t] = "enqueue"]
          /\ UNCHANGED <<elapsed, rejected>>
     ELSE \E now \in elapsed[t]..MaxElapsed :
            IF TimedOut(now, cfg.block_timeout_us)
            THEN /\ pc' = [pc EXCEPT ![t] = "rejected"]
                 /\ rejected' = rejected \cup {RecId(msg[t])}
                 /\ elapsed' = [elapsed EXCEPT ![t] = now]
            ELSE \* sleep_for(sleep_us)
                 /\ elapsed' = [elapsed EXCEPT ![t] = now]
                 /\ UNCHANGED <<pc, rejected>>
  /\ UNCHANGED <<quota, sideVars, cfg, level_, levelLog, loggerVars, que_, drop_cnt_, workerVars, sinkVars, bufVars, msg,
                 promise, ub, nsub, nsync, ignored, committed, syncPrior, syncState>>

\* mutant of AddDropCount: the count is not added
AddDropCountLost(d, cnt) == d

\* AsyncLogger::AddDropCount
AddDropCount(d, cnt) == d + cnt

\* Commit returned false: logger->AddDropCount(1), then ~LogMessage at the end
\* of LogSubmit returns the buffer with buffer_pool->Free
CommitFailed(t) ==
  /\ Alive /\ pc[t] = "rejected" /\ implLive /\ poolLive
  /\ drop_cnt_' = AddDropCount(drop_cnt_, 1)
  /\ pool_' = Free(pool_, msg[t].buf)
  /\ msg' = [msg EXCEPT ![t] = NoMsg]
  /\ pc' = [pc EXCEPT ![t] = "idle"]
  /\ UNCHANGED <<quota, sideVars, cfg, level_, levelLog, loggerVars, que_, workerVars, sinkVars, allocated, cache, tlsPool,
                 elapsed, promise, ub, histVars>>

\* the rest of LogSubmit run by a thread whose logger pointer has outlived the
\* AsyncLogger (or whose pool pointer has outlived the BufferPool)
LogSubmitDangling(t) ==
  /\ Alive /\ pc[t] \in {"enqueue", "block", "rejected"}
  /\ ~implLive \/ (pc[t] = "rejected" /\ ~poolLive)
  /\ \E o \in UbOutcomes : ub' = o
  /\ msg' = [msg EXCEPT ![t] = NoMsg]
  /\ pc' = [pc EXCEPT ![t] = "idle"]
  /\ UNCHANGED <<quota, sideVars, cfg, level_, levelLog, loggerVars, que_, drop_cnt_, workerVars, sinkVars, bufVars,
                 elapsed, promise, histVars>>

(* --------------------------- producer: Sync ---------------------------- *)

\* mutant of HasImpl: the call goes ahead without looking at impl_
HasImplUnchecked(p) == TRUE

\* Logger::Flush, Sync, Shutdown: if (impl_)
HasImpl(p) == p # NULL

\* Logger::Sync: if (impl_) impl_->Sync();
SyncEnter(t) ==
  /\ Alive /\ pc[t] = "idle"
  /\ quota.sync > 0
  /\ quota' = [quota EXCEPT !.sync = @ - 1]
  /\ nsync' = [nsync EXCEPT ![t] = @ + 1]
  /\ IF HasImpl(impl_)
     THEN \* AsyncLogger::Sync constructs a fresh std::promise
          /\ promise' = [promise EXCEPT ![t] = FALSE]
          /\ pc' = [pc EXCEPT ![t] = "sync_push"]
          /\ syncState' = [syncState EXCEPT ![t] = "calling"]
     ELSE /\ UNCHANGED <<promise, pc>>
          /\ syncState' = [syncState EXCEPT ![t] = "noop"]
  /\ UNCHANGED <<sideVars, cfg, level_, levelLog, loggerVars, que_, drop_cnt_, workerVars, sinkVars, bufVars, msg,
                 elapsed, ub, nsub, ignored, committed, rejected, syncPrior>>

\* AsyncLogger::Sync: queue_.Push(LogMessage(&prom), true)
SyncPush(t) ==
  /\ Alive /\ pc[t] = "sync_push"
  /\ IF implLive
     THEN IF NeedBackPressure(cfg, size_approx(que_), TRUE)
          THEN \* the barrier is handed to HandleBackPressure
               /\ syncState' = [syncState EXCEPT ![t] = "backpressure"]
               /\ pc' = [pc EXCEPT ![t] = "idle"]
               /\ UNCHANGED <<que_, syncPrior, ub>>
          ELSE /\ que_' = enqueue(que_, t, FlushMessage(t))
               /\ syncPrior' = [syncPrior EXCEPT ![t] = committed]
               /\ syncState' = [syncState EXCEPT ![t] = "waiting"]
               /\ pc' = [pc EXCEPT ![t] = "sync_wait"]
               /\ ub' = ub
     ELSE /\ \E o \in UbOutcomes : ub' = o
          /\ syncState' = [syncState EXCEPT ![t] = "dangling"]
          /\ pc' = [pc EXCEPT ![t] = "idle"]
          /\ UNCHANGED <<que_, syncPrior>>
  /\ UNCHANGED <<quota, sideVars, cfg, level_, levelLog, loggerVars, drop_cnt_, workerVars, sinkVars, bufVars, msg, elapsed,
                 promise, nsub, nsync, ignored, committed, rejected>>

\* mutant of FutureReady: Sync returns without waiting for the worker
FutureReadyNoWait(p, t) == TRUE

\* std::future::wait: returns once the promise has a value
FutureReady(p, t) == p[t]

\* AsyncLogger::Sync: fut.wait() returns once the worker has set the promise
SyncWait(t) ==
  /\ Alive /\ pc[t] = "sync_wait"
  /\ FutureReady(promise, t)
  /\ pc' = [pc EXCEPT ![t] = "idle"]
  /\ syncState' = [syncState EXCEPT ![t] = "returned"]
  /\ UNCHANGED <<quota, sideVars, cfg, level_, levelLog, loggerVars, que_, drop_cnt_, workerVars, sinkVars, bufVars, msg,
                 elapsed, promise, ub, nsub, nsync, ignored, committed, rejected,
                 syncPrior>>

(* --------------------------- producer: Flush --------------------------- *)

\* ILogSink::Log applied by every sink of sinks_
SinksLog(out, m) == [s \in Sinks |-> Append(out[s], RecId(m))]

\* ILogSink::Flush applied by every sink of sinks_
SinksFlush(out) == [s \in Sinks |-> Len(out[s])]

\* Logger::Flush: if (impl_) impl_->Flush();
FlushEnter(t) ==
  /\ Alive /\ pc[t] = "idle"
  /\ quota.sync > 0
  /\ quota' = [quota EXCEPT !.sync = @ - 1]
  /\ pc' = [pc EXCEPT ![t] = IF HasImpl(impl_) THEN "flush" ELSE "idle"]
  /\ UNCHANGED <<sideVars, cfg, level_, levelLog, loggerVars, que_, drop_cnt_, workerVars, sinkVars, bufVars, msg,
                 elapsed, promise, ub, histVars>>

\* AsyncLogger::Flush: sink->Flush() for every sink of sinks_, on the calling
\* thread
FlushRun(t) ==
  /\ Alive /\ pc[t] = "flush"
  /\ IF implLive
     THEN sinkFlushed' = SinksFlush(sinkOut) /\ ub' = ub
     ELSE sinkFlushed' = sinkFlushed /\ \E o \in UbOutcomes : ub' = o
  /\ pc' = [pc EXCEPT ![t] = "idle"]
  /\ UNCHANGED <<quota, sideVars, cfg, level_, levelLog, loggerVars, que_, drop_cnt_, workerVars, sinkOut, bufVars, msg,
                 elapsed, promise, histVars>>

(* ------------------------ producer: thread exit ------------------------ *)

\* ~ThreadLocalBufferCache: if (!cache.empty() && pool_) pool_->FreeBatch(cache)
ThreadExit(t) ==
  /\ Alive /\ pc[t] = "idle"
  /\ pc' = [pc EXCEPT ![t] = "exited"]
  /\ cache' = [cache EXCEPT ![t] = <<>>]
  /\ IF cache[t] # <<>> /\ tlsPool[t] # NULL
     THEN IF PointsToLive(tlsPool[t], buffer_pool_, poolLive)
          THEN pool_' = FreeBatch(pool_, cache[t]) /\ ub' = ub
          ELSE pool_' = pool_ /\ \E o \in UbOutcomes : ub' = o
     ELSE pool_' = pool_ /\ ub' = ub
  /\ UNCHANGED <<quota, sideVars, cfg, level_, levelLog, loggerVars, que_, drop_cnt_, workerVars, sinkVars, allocated,
                 tlsPool, msg, elapsed, promise, histVars>>

(* ------------------------------- worker -------------------------------- *)

\* mutant of BatchAt: the batch is walked from its back
BatchAtReversed(batch, i) == batch[Len(batch) + 1 - i]

\* mutant of BatchAt: every step dispatches the front message again
BatchAtFront(batch, i) == batch[1]

\* WorkerLoop: the element the range-for over buffer_batch visits at step i
BatchAt(batch, i) == batch[i]

\* mutant of BatchCleared: the buffers are given back after the first message
BatchClearedEarly(batch, i) == IF i = 1 THEN BufsOf(batch) ELSE <<>>

\* WorkerLoop: the buffers ~LogMessage gives back at step i of the range-for;
\* buffer_batch.clear() comes after the loop, so none before the last step
BatchCleared(batch, i) == IF i = Len(batch) THEN BufsOf(batch) ELSE <<>>

\* mutant of WorkerContinues: running_ is not looked at
WorkerContinuesIfQueued(running, size) == size > 0

\* WorkerLoop: the while condition
WorkerContinues(running, size) == running \/ size > 0

\* WorkerLoop: the while test, PopBatch, and the branch on its count
WorkerIter ==
  /\ Alive /\ wpc = "loop"
  /\ IF ~WorkerContinues(running_, size_approx(que_))
     THEN wpc' = "exited" /\ UNCHANGED <<que_, buffer_batch, bpos>>
     ELSE \E ord \in Orders :
            LET out == PopBatch(que_, ord, BatchSize)
            IN IF Len(out) > 0
               THEN /\ buffer_batch' = out
                    /\ que_' = Remaining(que_, out)
                    /\ bpos' = 1
                    /\ wpc' = "dispatch"
               ELSE \* sleep while running_, break otherwise
                    /\ wpc' = IF running_ THEN "loop" ELSE "exited"
                    /\ UNCHANGED <<que_, buffer_batch, bpos>>
  /\ UNCHANGED <<quota, sideVars, cfg, level_, levelLog, loggerVars, drop_cnt_, sinkVars, bufVars, pc, msg, elapsed,
                 promise, ub, histVars>>

\* WorkerLoop: the body of the range-for for one message; after the last
\* message buffer_batch.clear() destroys the batch and every ~LogMessage frees
\* its buffer
WorkerDispatch ==
  /\ Alive /\ wpc = "dispatch"
  /\ LET m == BatchAt(buffer_batch, bpos)
     IN IF m.level = FLUSH
        THEN /\ sinkFlushed' = SinksFlush(sinkOut)
             /\ promise' = [promise EXCEPT ![m.tid] = TRUE]
             /\ sinkOut' = sinkOut
        ELSE /\ sinkOut' = SinksLog(sinkOut, m)
             /\ UNCHANGED <<sinkFlushed, promise>>
  /\ IF BatchCleared(buffer_batch, bpos) # <<>> /\ ~poolLive
     THEN \* ~LogMessage: buffer_pool->Free on a destroyed BufferPool
          pool_' = pool_ /\ \E o \in UbOutcomes : ub' = o
     ELSE pool_' = FreeBatch(pool_, BatchCleared(buffer_batch, bpos)) /\ ub' = ub
  /\ IF bpos = Len(buffer_batch)
     THEN /\ buffer_batch' = <<>>
          /\ bpos' = 1
          /\ wpc' = "loop"
     ELSE /\ bpos' = bpos + 1
          /\ UNCHANGED <<buffer_batch, wpc>>
  /\ UNCHANGED <<quota, sideVars, cfg, level_, levelLog, loggerVars, que_, drop_cnt_, allocated, cache, tlsPool, pc,
                 msg, elapsed, histVars>>

(* -------------------------- Logger::Shutdown --------------------------- *)

\* Shutdown: if (impl_) impl_->Sync(): the barrier is pushed with force
ShutdownSync ==
  /\ Alive /\ apc \in {"run", "down"}
  /\ IF HasImpl(impl_)
     THEN /\ que_' = enqueue(que_, MAIN, FlushMessage(MAIN))
          /\ promise' = [promise EXCEPT ![MAIN] = FALSE]
          /\ syncPrior' = [syncPrior EXCEPT ![MAIN] = committed]
          /\ syncState' = [syncState EXCEPT ![MAIN] = "waiting"]
          /\ apc' = "sd_wait"
     ELSE /\ apc' = "sd_reset"
          /\ UNCHANGED <<que_, promise, syncPrior, syncState>>
  /\ UNCHANGED <<quota, sideVars, cfg, level_, levelLog, impl_, buffer_pool_, implLive, poolLive, running_, drop_cnt_,
                 workerVars, sinkVars, bufVars, pc, msg, elapsed, ub, nsub,
                 nsync, ignored, committed, rejected>>

\* Shutdown: fut.wait() of that Sync
ShutdownSyncWait ==
  /\ Alive /\ apc = "sd_wait"
  /\ FutureReady(promise, MAIN)
  /\ apc' = "sd_reset"
  /\ syncState' = [syncState EXCEPT ![MAIN] = "returned"]
  /\ UNCHANGED <<quota, sideVars, cfg, level_, levelLog, impl_, buffer_pool_, implLive, poolLive, running_, que_, drop_cnt_,
                 workerVars, sinkVars, bufVars, pc, msg, elapsed, promise, ub, nsub,
                 nsync, ignored, committed, rejected, syncPrior>>

\* Shutdown: impl_.reset() clears the pointer, then ~AsyncLogger: running_ = false
ShutdownReset ==
  /\ Alive /\ apc = "sd_reset"
  /\ impl_' = NULL
  /\ running_' = FALSE
  /\ apc' = "sd_join"
  /\ UNCHANGED <<quota, sideVars, cfg, level_, levelLog, buffer_pool_, implLive, poolLive, que_, drop_cnt_, workerVars,
                 sinkVars, bufVars, pc, msg, elapsed, promise, ub, histVars>>

\* AsyncLogger::TimerLoop: one test of while (running_); UpdateNow and the
\* sleep change nothing the model holds
TimerLoop ==
  /\ Alive /\ tpc = "loop"
  /\ tpc' = IF running_ THEN "loop" ELSE "exited"
  /\ UNCHANGED <<fileVars, pipeVars, legacy>>

\* ~AsyncLogger: worker_thread_.join() and timer_thread_.join(), then the
\* members are destroyed; the messages left in queue_ are destroyed and free
\* their buffers
ShutdownJoin ==
  /\ Alive /\ apc = "sd_join"
  /\ wpc = "exited" /\ tpc = "exited"
  /\ pool_' = FreeBatch(pool_, BufsOf(Concat(que_, <<MAIN, 1, 2>>)))
  /\ que_' = [t \in Threads |-> <<>>]
  /\ implLive' = FALSE
  /\ apc' = "sd_pool"
  /\ UNCHANGED <<quota, sideVars, cfg, level_, levelLog, impl_, buffer_pool_, poolLive, running_, drop_cnt_, workerVars,
                 sinkVars, allocated, cache, tlsPool, pc, msg, elapsed, promise, ub,
                 histVars>>

\* Shutdown: buffer_pool_.reset(): ~BufferPool destroys pool_, which holds
\* pointers only; no LogBuffer is deleted
ShutdownPoolReset ==
  /\ Alive /\ apc = "sd_pool"
  /\ buffer_pool_' = NULL
  /\ poolLive' = FALSE
  /\ pool_' = <<>>
  /\ apc' = "down"
  /\ UNCHANGED <<quota, sideVars, cfg, level_, levelLog, impl_, implLive, running_, que_, drop_cnt_, workerVars, sinkVars,
                 allocated, cache, tlsPool, pc, msg, elapsed, promise, ub, histVars>>

Next ==
  \/ \E t \in Producers : LogSubmitBegin(t, INFO)
  \/ \E t \in Producers : PushEnqueue(t)
  \/ \E t \in Producers : BlockLoop(t)
  \/ \E t \in Producers : CommitFailed(t)
  \/ \E t \in Producers : LogSubmitDangling(t)
  \/ \E t \in Producers : SyncEnter(t)
  \/ \E t \in Producers : SyncPush(t)
  \/ \E t \in Producers : SyncWait(t)
  \/ \E t \in Producers : FlushEnter(t)
  \/ \E t \in Producers : FlushRun(t)
  \/ \E t \in Producers : ThreadExit(t)
  \/ WorkerIter
  \/ WorkerDispatch
  \/ TimerLoop
  \/ ShutdownSync
  \/ ShutdownSyncWait
  \/ ShutdownReset
  \/ ShutdownJoin
  \/ ShutdownPoolReset

Spec == Init /\ [][Next]_vars

\* the pipeline while the logger lives: no Shutdown, no thread exit
InitRun ==
  /\ cfg \in Configs
  /\ quota = [submit |-> RunSubmit, sync |-> RunSync, init |-> 0]
  /\ Started
  /\ NoFileSink

NextRun ==
  \/ \E t \in Producers : LogSubmitBegin(t, INFO)
  \/ \E t \in Producers : PushEnqueue(t)
  \/ \E t \in Producers : BlockLoop(t)
  \/ \E t \in Producers : CommitFailed(t)
  \/ \E t \in Producers : SyncEnter(t)
  \/ \E t \in Producers : SyncPush(t)
  \/ \E t \in Producers : SyncWait(t)
  \/ WorkerIter
  \/ WorkerDispatch

SpecRun == InitRun /\ [][NextRun]_vars

(* ------------------------- Init after Shutdown ------------------------- *)

\* the number of Init calls made so far; it names the objects the call created
Session(q) == MaxReinit - q.init + 1

\* Logger::Init called again after Shutdown has returned, and AddSink of the
\* same sinks: a new BufferPool with PoolSize new buffers and a new AsyncLogger
\* with its own queue, drop_cnt_ and worker. The application calls it while
\* none of its threads is inside LogSubmit or about to push a barrier.
Reinit ==
  /\ Alive /\ apc = "down"
  /\ quota.init > 0
  /\ \A t \in Producers : pc[t] \in {"idle", "exited", "sync_wait"}
  /\ quota' = [quota EXCEPT !.init = @ - 1]
  /\ buffer_pool_' = Session(quota) + 1 /\ poolLive' = TRUE
  /\ pool_' = [i \in 1..PoolSize |-> allocated + i]
  /\ allocated' = allocated + PoolSize
  /\ impl_' = Session(quota) + 1 /\ implLive' = TRUE
  /\ running_' = TRUE
  /\ que_' = [t \in Threads |-> <<>>]
  /\ drop_cnt_' = 0
  /\ wpc' = "loop" /\ buffer_batch' = <<>> /\ bpos' = 1
  /\ tpc' = "loop"
  /\ apc' = "run"
  /\ UNCHANGED <<fileVars, length, owned_config_, last_load, legacy, cfg, level_, levelLog, sinkVars,
                 cache, tlsPool, pc, msg, elapsed, promise, ub, histVars>>

NextReinit ==
  \/ \E t \in Producers : LogSubmitBegin(t, INFO)
  \/ \E t \in Producers : LogSubmitStalePool(t, INFO)
  \/ \E t \in Producers : PushEnqueue(t)
  \/ \E t \in Producers : CommitFailed(t)
  \/ \E t \in Producers : LogSubmitDangling(t)
  \/ \E t \in Producers : ThreadExit(t)
  \/ WorkerIter
  \/ WorkerDispatch
  \/ TimerLoop
  \/ ShutdownSync
  \/ ShutdownSyncWait
  \/ ShutdownReset
  \/ ShutdownJoin
  \/ ShutdownPoolReset
  \/ Reinit

\* two sessions of the logger under DROP: Init, Shutdown, Init again
InitReinit ==
  /\ cfg = [capacity |-> QueueCapacity, full_policy |-> "DROP", block_timeout_us |-> 0]
  /\ quota = [submit |-> ReSubmit, sync |-> 0, init |-> MaxReinit]
  /\ Started
  /\ NoFileSink

SpecReinit == InitReinit /\ [][NextReinit]_vars

(* ---------------------- Init on a running logger ---------------------- *)

\* Logger::Init called while the logger runs, first statement:
\* buffer_pool_ = std::make_unique<BufferPool>(...). The new pool is built and
\* the pool of the running session is destroyed. Until the old AsyncLogger is
\* gone, pool_ and poolLive describe the pool its messages point to. The
\* application calls Init while none of its threads is inside LogSubmit.
InitPool ==
  /\ Alive /\ apc = "run" /\ HasImpl(impl_)
  /\ quota.init > 0
  /\ \A t \in Producers : pc[t] \in {"idle", "exited"}
  /\ quota' = [quota EXCEPT !.init = @ - 1]
  /\ buffer_pool_' = Session(quota) + 1
  /\ poolLive' = FALSE
  /\ pool_' = <<>>
  /\ apc' = "ri_impl"
  /\ UNCHANGED <<sideVars, cfg, level_, levelLog, impl_, implLive, running_, que_, drop_cnt_,
                 workerVars, sinkVars, allocated, cache, tlsPool, pc, msg, elapsed,
                 promise, ub, histVars>>

\* Logger::Init, second statement: impl_ = std::make_unique<AsyncLogger>(...).
\* impl_ points to the new AsyncLogger and ~AsyncLogger of the old one sets
\* running_ = false
InitImpl ==
  /\ Alive /\ apc = "ri_impl"
  /\ impl_' = Session(quota)
  /\ running_' = FALSE
  /\ apc' = "ri_join"
  /\ UNCHANGED <<quota, sideVars, cfg, level_, levelLog, buffer_pool_, implLive, poolLive, que_,
                 drop_cnt_, workerVars, sinkVars, bufVars, pc, msg, elapsed, promise,
                 ub, histVars>>

\* ~AsyncLogger of the old logger: the joins, then its queue is destroyed and
\* every message left in it frees its buffer through the pool pointer it
\* carries; from here on the variables describe the new AsyncLogger and the
\* new BufferPool
InitJoin ==
  /\ Alive /\ apc = "ri_join"
  /\ wpc = "exited" /\ tpc = "exited"
  /\ IF BufsOf(Concat(que_, <<MAIN, 1, 2>>)) # <<>>
     THEN \E o \in UbOutcomes : ub' = o
     ELSE ub' = ub
  /\ poolLive' = TRUE
  /\ pool_' = [i \in 1..PoolSize |-> allocated + i]
  /\ allocated' = allocated + PoolSize
  /\ implLive' = TRUE
  /\ running_' = TRUE
  /\ que_' = [t \in Threads |-> <<>>]
  /\ drop_cnt_' = 0
  /\ wpc' = "loop" /\ buffer_batch' = <<>> /\ bpos' = 1
  /\ tpc' = "loop"
  /\ apc' = "run"
  /\ UNCHANGED <<quota, fileVars, length, owned_config_, last_load, legacy, cfg, level_, levelLog,
                 impl_, buffer_pool_, sinkVars, cache, tlsPool, pc, msg, elapsed,
                 promise, histVars>>

\* LogSubmit, called while no Init is in progress
LogSubmitOutsideInit(t) ==
  /\ apc = "run"
  /\ LogSubmitBegin(t, INFO) \/ LogSubmitStalePool(t, INFO)

NextInitRunning ==
  \/ \E t \in Producers : LogSubmitOutsideInit(t)
  \/ \E t \in Producers : PushEnqueue(t)
  \/ \E t \in Producers : CommitFailed(t)
  \/ \E t \in Producers : ThreadExit(t)
  \/ WorkerIter
  \/ WorkerDispatch
  \/ TimerLoop
  \/ InitPool
  \/ InitImpl
  \/ InitJoin

\* the running logger under DROP, with one more Init to come
InitInitRunning ==
  /\ cfg = [capacity |-> QueueCapacity, full_policy |-> "DROP", block_timeout_us |-> 0]
  /\ quota = [submit |-> ReSubmit, sync |-> 0, init |-> MaxReinit]
  /\ Started
  /\ NoFileSink

SpecInitRunning == InitInitRunning /\ [][NextInitRunning]_vars

(* --------------------- AddSink on a running logger --------------------- *)

\* the sinks attached while the worker runs
LateSinks == (NumSinks + 1)..(NumSinks + MaxAddSink)

\* AsyncLogger::sinks_: the sinks attached so far
sinks_ == DOMAIN sinkOut

\* Logger::AddSink -> AsyncLogger::AddSink: sinks_.push_back(sink), with no
\* lock; while the worker is inside for (auto &sink : sinks_) the push_back
\* races with the iteration (it may reallocate the vector under it)
AddSink(s) ==
  /\ Alive /\ HasImpl(impl_) /\ implLive
  /\ s \notin sinks_
  /\ sinkOut' = [x \in sinks_ \cup {s} |-> IF x = s THEN <<>> ELSE sinkOut[x]]
  /\ sinkFlushed' = [x \in sinks_ \cup {s} |-> IF x = s THEN 0 ELSE sinkFlushed[x]]
  /\ IF wpc = "sinks"
     THEN \E o \in UbOutcomes \cup {"no"} : ub' = o
     ELSE ub' = ub
  /\ UNCHANGED <<quota, sideVars, cfg, level_, levelLog, loggerVars, que_, drop_cnt_, workerVars,
                 bufVars, pc, msg, elapsed, promise, histVars>>

\* WorkerLoop: the worker reaches for (auto &sink : sinks_) for the message
\* at bpos
WorkerSinksEnter ==
  /\ Alive /\ wpc = "dispatch"
  /\ wpc' = "sinks"
  /\ UNCHANGED <<quota, sideVars, cfg, level_, levelLog, loggerVars, que_, drop_cnt_, buffer_batch,
                 bpos, sinkVars, bufVars, pc, msg, elapsed, promise, ub, histVars>>

\* WorkerLoop: the loop over sinks_ for one message, and buffer_batch.clear()
\* after the last one
WorkerSinks ==
  /\ Alive /\ wpc = "sinks"
  /\ LET m == BatchAt(buffer_batch, bpos)
     IN IF m.level = FLUSH
        THEN /\ sinkFlushed' = [s \in sinks_ |-> Len(sinkOut[s])]
             /\ promise' = [promise EXCEPT ![m.tid] = TRUE]
             /\ sinkOut' = sinkOut
        ELSE /\ sinkOut' = [s \in sinks_ |-> Append(sinkOut[s], RecId(m))]
             /\ UNCHANGED <<sinkFlushed, promise>>
  /\ pool_' = FreeBatch(pool_, BatchCleared(buffer_batch, bpos))
  /\ IF bpos = Len(buffer_batch)
     THEN /\ buffer_batch' = <<>>
          /\ bpos' = 1
          /\ wpc' = "loop"
     ELSE /\ bpos' = bpos + 1
          /\ wpc' = "dispatch"
          /\ UNCHANGED buffer_batch
  /\ UNCHANGED <<quota, sideVars, cfg, level_, levelLog, loggerVars, que_, drop_cnt_, allocated, cache, tlsPool, pc,
                 msg, elapsed, ub, histVars>>

NextAddSink ==
  \/ \E t \in Producers : LogSubmitBegin(t, INFO)
  \/ \E t \in Producers : PushEnqueue(t)
  \/ \E t \in Producers : BlockLoop(t)
  \/ \E t \in Producers : CommitFailed(t)
  \/ \E t \in Producers : SyncEnter(t)
  \/ \E t \in Producers : SyncPush(t)
  \/ \E t \in Producers : SyncWait(t)
  \/ \E s \in LateSinks : AddSink(s)
  \/ WorkerIter
  \/ WorkerSinksEnter
  \/ WorkerSinks

SpecAddSink == InitRun /\ [][NextAddSink]_vars

(* ------------------------ Logger::GetDropCount ------------------------- *)

\* a thread calls Logger::GetDropCount
GetDropCountEnter(t) ==
  /\ Alive /\ pc[t] = "idle"
  /\ pc' = [pc EXCEPT ![t] = "dropcount"]
  /\ UNCHANGED <<quota, sideVars, cfg, level_, levelLog, loggerVars, que_, drop_cnt_, workerVars,
                 sinkVars, bufVars, msg, elapsed, promise, ub, histVars>>

\* Logger::GetDropCount: return impl_->GetDropCount(); impl_ is dereferenced
\* without a test, a null impl_ included
GetDropCount(t) ==
  /\ Alive /\ pc[t] = "dropcount"
  /\ pc' = [pc EXCEPT ![t] = "idle"]
  /\ IF HasImpl(impl_)
     THEN ub' = ub
     ELSE \E o \in UbOutcomes : ub' = o
  /\ UNCHANGED <<quota, sideVars, cfg, level_, levelLog, loggerVars, que_, drop_cnt_, workerVars,
                 sinkVars, bufVars, msg, elapsed, promise, histVars>>

NextDropCount ==
  \/ \E t \in Producers : LogSubmitBegin(t, INFO)
  \/ \E t \in Producers : PushEnqueue(t)
  \/ \E t \in Producers : BlockLoop(t)
  \/ \E t \in Producers : CommitFailed(t)
  \/ \E t \in Producers : LogSubmitDangling(t)
  \/ \E t \in Producers : GetDropCountEnter(t)
  \/ \E t \in Producers : GetDropCount(t)
  \/ WorkerIter
  \/ WorkerDispatch
  \/ TimerLoop
  \/ ShutdownSync
  \/ ShutdownSyncWait
  \/ ShutdownReset
  \/ ShutdownJoin
  \/ ShutdownPoolReset

SpecDropCount == Init /\ [][NextDropCount]_vars

(* ----------------------- LogConfig::LoadFromFile ----------------------- *)

\* ParseLevel
ParseLevel(value) ==
  IF value = "DEBUG" THEN DEBUG ELSE IF value = "WARN" THEN WARN ELSE INFO

\* ParsePolicy
ParsePolicy(value) == IF value = "DROP" THEN "DROP" ELSE "BLOCK"

\* ParseRotatePolicy
ParseRotatePolicy(value) ==
  IF value = "DAILY" THEN "DAILY" ELSE IF value = "SIZE" THEN "SIZE" ELSE "NONE"

\* LogConfig::IsValidTimeFormat: not empty (strftime gives output for the
\* formats of ConfigFiles)
IsValidTimeFormat(format) == format # ""

\* TomlHelper::LoadFromFile: the file exists and parses
ParseOk(f) == f.kind = "ok"

\* mutant of LoadFailed: the result of the parse is not looked at
LoadFailedIgnored(parsed) == FALSE

\* LoadFromFile: if (!helper.LoadFromFile(...)) return false
LoadFailed(parsed) == ~parsed

\* mutant of LevelOnly: a hot reload goes on to the other keys
LevelOnlyNever(apply_all) == FALSE

\* LoadFromFile: if (!apply_all) return true
LevelOnly(apply_all) == ~apply_all

\* LoadFromFile with apply_all: the stores that follow the level, key by key
LoadAll(c, f) ==
  LET has(k) == f.keys[k] # <<>>
      v(k) == f.keys[k][1]
  IN [full_policy |->
        IF has("full_policy") THEN ParsePolicy(v("full_policy")) ELSE c.full_policy,
      time_format |->
        IF has("time_format") /\ IsValidTimeFormat(v("time_format"))
        THEN v("time_format") ELSE c.time_format,
      worker_batch_size |->
        IF has("worker_batch_size") /\ v("worker_batch_size") > 0
        THEN v("worker_batch_size") ELSE c.worker_batch_size,
      queue_capacity |->
        IF has("queue_capacity") /\ v("queue_capacity") >= 0
        THEN v("queue_capacity") ELSE c.queue_capacity,
      queue_block_timeout_us |->
        IF has("queue_block_timeout_us")
        THEN (IF v("queue_block_timeout_us") < 0 THEN kMaxBlockTimeout_us
              ELSE v("queue_block_timeout_us"))
        ELSE c.queue_block_timeout_us,
      buffer_pool_size |->
        IF has("buffer_pool_size") /\ v("buffer_pool_size") > 0
        THEN v("buffer_pool_size") ELSE c.buffer_pool_size,
      tls_buffer_count |->
        IF has("tls_buffer_count") /\ v("tls_buffer_count") > 0
        THEN v("tls_buffer_count") ELSE c.tls_buffer_count,
      file_buffer_size |->
        IF has("file_buffer_size_kb") /\ v("file_buffer_size_kb") > 0
        THEN v("file_buffer_size_kb") * 1024 ELSE c.file_buffer_size,
      log_path |->
        IF has("log_path") /\ v("log_path") # "" THEN v("log_path") ELSE c.log_path,
      rotate_policy |->
        IF has("rotate_policy") THEN ParseRotatePolicy(v("rotate_policy"))
        ELSE c.rotate_policy,
      rotate_size_mb |->
        IF has("rotate_size_mb") /\ v("rotate_size_mb") > 0
        THEN v("rotate_size_mb") ELSE c.rotate_size_mb,
      max_rotate_files |->
        IF has("max_rotate_files") /\ v("max_rotate_files") >= 0
        THEN v("max_rotate_files") ELSE c.max_rotate_files,
      console_buffer_size |->
        IF has("console_buffer_size_kb") /\ v("console_buffer_size_kb") > 0
        THEN v("console_buffer_size_kb") * 1024 ELSE c.console_buffer_size,
      reload_interval_ms |->
        IF has("reload_interval_ms") /\ v("reload_interval_ms") >= 0
        THEN v("reload_interval_ms") ELSE c.reload_interval_ms]

\* LogConfig::LoadFromFile(path, apply_all) on a path that holds file f
LoadFromFile(f, apply_all) ==
  /\ Alive
  /\ IF LoadFailed(ParseOk(f))
     THEN /\ last_load' = [apply_all |-> apply_all, file |-> f, ok |-> FALSE]
          /\ UNCHANGED <<level_, owned_config_>>
     ELSE /\ last_load' = [apply_all |-> apply_all, file |-> f, ok |-> TRUE]
          /\ level_' = IF f.level # <<>> THEN ParseLevel(f.level[1]) ELSE level_
          /\ owned_config_' = IF LevelOnly(apply_all) THEN owned_config_
                              ELSE LoadAll(owned_config_, f)
  /\ UNCHANGED <<fileVars, length, tpc, legacy, cfg, impl_, buffer_pool_, implLive, poolLive,
                 running_, que_, drop_cnt_, wpc, buffer_batch, bpos, sinkOut,
                 sinkFlushed, pool_, allocated, cache, tlsPool, pc, msg, elapsed,
                 promise, apc, ub, quota, nsub, nsync, ignored, committed,
                 rejected, syncPrior, syncState, levelLog>>

\* LogConfig::WatchLoop: the file's write time has changed
WatchLoopReload(f) ==
  /\ Alive
  /\ LoadFromFile(f, FALSE)

\* LoadFromFile(path) called by the application
AppLoad(f) ==
  /\ Alive
  /\ LoadFromFile(f, TRUE)

NextConfig == \E f \in ConfigFiles : WatchLoopReload(f) \/ AppLoad(f)

InitConfig ==
  /\ cfg = [capacity |-> 0, full_policy |-> "DROP", block_timeout_us |-> 0]
  /\ quota = [submit |-> 0, sync |-> 0, init |-> 0]
  /\ Started
  /\ NoFileSink

SpecConfig == InitConfig /\ [][NextConfig]_vars

(* ------------------------- LogSubmit: the payload ----------------------- *)

\* the lengths std::format would give the payloads the application logs
FormatSizes == {0, 1, 100, SIZE - 2, SIZE - 1, SIZE, SIZE + 1, 5000, 2 * SIZE - 1, 2 * SIZE}

\* std::format_to_n(out, n, fmt, args...).size: the length of the whole
\* formatted output, of which at most n characters are stored
ResultSize(full, n) == full

\* LogSubmit: format the payload into the buffer, store its length and the
\* terminating '\0'; a write beyond data[SIZE - 1] leaves the buffer
FormatPayload(t, full) ==
  /\ Alive
  /\ length' = [length EXCEPT ![t] = ResultSize(full, SIZE - 1)]
  /\ IF length'[t] < SIZE
     THEN ub' = ub
     ELSE \E o \in UbOutcomes : ub' = o
  /\ UNCHANGED <<fileVars, pipeRest, tpc, legacy>>

NextFormat == \E t \in Producers, full \in FormatSizes : FormatPayload(t, full)

InitFormat ==
  /\ cfg = [capacity |-> 0, full_policy |-> "DROP", block_timeout_us |-> 0]
  /\ quota = [submit |-> 0, sync |-> 0, init |-> 0]
  /\ Started
  /\ NoFileSink

SpecFormat == InitFormat /\ [][NextFormat]_vars

(* ------------------------------ FileSink ------------------------------- *)

\* mutant of NeedSizeRotate: a file of exactly the threshold is not rotated
NeedSizeRotateAbove(size, limit) == size > limit

\* FileSink::CheckSizeRotate: the test that lets RotateFile run
NeedSizeRotate(size, limit) == ~(size < limit)

\* FileSink::GenerateRotatedName, SIZE policy: starting from the static i, the
\* first N whose path <log_path>_<N> does not exist
RECURSIVE GenerateRotatedName(_, _)
GenerateRotatedName(n, f) ==
  IF n > MaxIndex \/ f[n] = NoFile THEN n ELSE GenerateRotatedName(n + 1, f)

\* FileSink::CollectRotateFilesAndCleanOld after the push_back: the while loop
\* that removes the front of rotate_files_
RECURSIVE CleanOld(_, _, _)
CleanOld(rf, f, max) ==
  IF Len(rf) > max
  THEN CleanOld(Tail(rf), [f EXCEPT ![Head(rf)] = NoFile], max)
  ELSE [rotate_files |-> rf, files |-> f]

\* FileSink::UpdateNextRotationTime: the local day of `now` plus one, at 00:00:00
NextMidnight(now) == (now \div TicksPerDay + 1) * TicksPerDay

\* FileSink::CheckDailyRotate: the test that lets RotateFile run
NeedDailyRotate(now, tp) == ~(now < tp)

\* CurrentTimeToString("%Y-%m-%d"): the date of the local day of `now`
CurrentTimeToString(now) == now \div TicksPerDay

\* the path <log_path><date> for the date of day d
DateName(d) == MaxIndex + 1 + d

\* FileSink::CheckRotate: whether the policy in force asks for a rotation
NeedRotate ==
  CASE rotate_policy_ = "DAILY" -> NeedDailyRotate(clock, next_rotation_tp_)
    [] rotate_policy_ = "SIZE" -> NeedSizeRotate(current_file_size_, rotate_size_bytes_)
    [] OTHER -> FALSE

\* FileSink::GenerateRotatedName for the policy in force
RotatedName ==
  IF rotate_policy_ = "DAILY"
  THEN DateName(CurrentTimeToString(clock))
  ELSE GenerateRotatedName(rotate_i, files)

\* FileSink::Log for a message formatted to len bytes: CheckRotate (RotateFile:
\* close, rename to the generated name, clean old files, reopen <log_path>
\* empty; then the size reset of CheckSizeRotate or UpdateNextRotationTime of
\* CheckDailyRotate), then fwrite and the size update
FileLog(len) ==
  /\ Alive
  /\ IF file_ = NULL
     THEN UNCHANGED <<file_, files, current_file_size_, rotate_files_, rotate_i,
                      next_rotation_tp_, written, terminated, ub>>
     ELSE IF ~NeedRotate
     THEN /\ files[0] + len <= MaxFileMiB * MiB
          /\ files' = [files EXCEPT ![0] = @ + len]
          /\ current_file_size_' = current_file_size_ + len
          /\ written' = [written EXCEPT ![0] = @ \cup {CurrentTimeToString(clock)}]
          /\ UNCHANGED <<file_, rotate_files_, rotate_i, next_rotation_tp_,
                         terminated, ub>>
     ELSE LET n == RotatedName
              renamed == [files EXCEPT ![n] = files[0], ![0] = NoFile]
              moved == [written EXCEPT ![n] = written[0], ![0] = {}]
              pushed == Append(rotate_files_, n)
              c == CleanOld(pushed, renamed, max_rotate_files_)
              kept == [m \in Names |-> IF c.files[m] = NoFile THEN {} ELSE moved[m]]
              size == IF rotate_policy_ = "SIZE" THEN 0 ELSE current_file_size_
              tp == IF rotate_policy_ = "DAILY"
                    THEN NextMidnight(clock) ELSE next_rotation_tp_
          IN /\ rotate_policy_ = "SIZE" => n <= MaxIndex
             /\ rotate_i' = IF rotate_policy_ = "SIZE" THEN n + 1 ELSE rotate_i
             /\ IF "rename" \in fs_fail
                THEN \* std::filesystem::rename throws after fclose(file_)
                     /\ file_' = NULL /\ terminated' = TRUE
                     /\ UNCHANGED <<files, current_file_size_, rotate_files_,
                                    next_rotation_tp_, written, ub>>
                ELSE IF "remove" \in fs_fail /\ Len(pushed) > max_rotate_files_
                THEN \* std::filesystem::remove throws in the cleaning loop
                     /\ file_' = NULL /\ terminated' = TRUE
                     /\ files' = renamed /\ written' = moved
                     /\ rotate_files_' = pushed
                     /\ UNCHANGED <<current_file_size_, next_rotation_tp_, ub>>
                ELSE IF "fopen" \in fs_fail
                THEN \* file_ stays null; Log goes on to fwrite(..., file_)
                     /\ file_' = NULL
                     /\ files' = c.files /\ written' = kept
                     /\ rotate_files_' = c.rotate_files
                     /\ next_rotation_tp_' = tp
                     /\ current_file_size_' = size + len
                     /\ \E o \in UbOutcomes : ub' = o
                     /\ UNCHANGED terminated
                ELSE /\ files' = [c.files EXCEPT ![0] = len]
                     /\ written' = [kept EXCEPT ![0] = {CurrentTimeToString(clock)}]
                     /\ rotate_files_' = c.rotate_files
                     /\ next_rotation_tp_' = tp
                     /\ current_file_size_' = size + len
                     /\ UNCHANGED <<file_, terminated, ub>>
  /\ fpc' = "idle"
  /\ UNCHANGED <<max_rotate_files_, rotate_size_bytes_, rotate_policy_, clock,
                 fs_fail, pipeRest, length, tpc, legacy>>

NextFile == \E len \in LineLens : FileLog(len)

\* a FileSink constructed on <log_path> under the SIZE policy, in a directory
\* that may hold the active file and rotated files of an earlier run
InitFile ==
  /\ cfg = [capacity |-> 0, full_policy |-> "DROP", block_timeout_us |-> 0]
  /\ quota = [submit |-> 0, sync |-> 0, init |-> 0]
  /\ Started
  /\ file_ = 1
  /\ \E pre \in SUBSET (1..PreIndex), size \in {0, MiB \div 2} :
       files = [n \in Names |->
                  IF n = 0 THEN size ELSE IF n \in pre THEN MiB ELSE NoFile]
  /\ current_file_size_ = files[0]
  /\ rotate_files_ = <<>>
  /\ rotate_i = 1
  /\ max_rotate_files_ \in 0..MaxKeepFiles
  /\ rotate_size_bytes_ \in {mb * MiB : mb \in RotateSizesMB}
  /\ rotate_policy_ = "SIZE"
  /\ clock = 0
  /\ next_rotation_tp_ = NextMidnight(clock)
  /\ written = [n \in Names |-> {}]
  /\ fs_fail = {}
  /\ terminated = FALSE
  /\ fpc = "idle"

SpecFile == InitFile /\ [][NextFile]_vars

\* the wall clock advances
ClockTick ==
  /\ Alive
  /\ clock < MaxClock
  /\ clock' = clock + 1
  /\ UNCHANGED <<file_, files, current_file_size_, rotate_files_, rotate_i,
                 max_rotate_files_, rotate_size_bytes_, rotate_policy_,
                 next_rotation_tp_, written, fs_fail, terminated, fpc, pipeVars, tpc, legacy>>

NextDaily == ClockTick \/ \E len \in LineLens : FileLog(len)

\* a FileSink constructed on a new <log_path> under the DAILY policy at some
\* time of the first day
InitDaily ==
  /\ cfg = [capacity |-> 0, full_policy |-> "DROP", block_timeout_us |-> 0]
  /\ quota = [submit |-> 0, sync |-> 0, init |-> 0]
  /\ Started
  /\ file_ = 1
  /\ files = [n \in Names |-> IF n = 0 THEN 0 ELSE NoFile]
  /\ current_file_size_ = 0
  /\ rotate_files_ = <<>>
  /\ rotate_i = 1
  /\ max_rotate_files_ \in 0..MaxKeepFiles
  /\ rotate_size_bytes_ = MiB
  /\ rotate_policy_ = "DAILY"
  /\ clock \in 0..(TicksPerDay - 1)
  /\ next_rotation_tp_ = NextMidnight(clock)
  /\ written = [n \in Names |-> {}]
  /\ fs_fail = {}
  /\ terminated = FALSE
  /\ fpc = "idle"

SpecDaily == InitDaily /\ [][NextDaily]_vars

\* rename, remove and fopen, the calls of RotateFile and Init that can fail
FsOps == {"rename", "remove", "fopen"}

\* the environment: a path becomes unwritable or writable again
FsChange(f) ==
  /\ Alive
  /\ f # fs_fail
  /\ fs_fail' = f
  /\ UNCHANGED <<file_, files, current_file_size_, rotate_files_, rotate_i,
                 max_rotate_files_, rotate_size_bytes_, rotate_policy_,
                 next_rotation_tp_, clock, written, terminated, fpc, pipeVars, tpc, legacy>>

\* FileSink::ApplyConfig(config) under the SIZE policy, called by a thread
\* other than the worker: the settings are copied, setvbuf and
\* buffer_.reserve are called if file_ is open; the file is not opened. No
\* lock is taken: while the worker is inside Log the accesses race
FileApplyConfig(mb, max) ==
  /\ Alive
  /\ rotate_policy_' = "SIZE"
  /\ rotate_size_bytes_' = mb * MiB
  /\ max_rotate_files_' = max
  /\ IF fpc = "idle"
     THEN ub' = ub
     ELSE \E o \in UbOutcomes \cup {"no"} : ub' = o
  /\ UNCHANGED <<file_, files, current_file_size_, rotate_files_, rotate_i,
                 next_rotation_tp_, clock, written, fs_fail, terminated, fpc,
                 pipeRest, length, tpc, legacy>>

NextFault ==
  \/ \E len \in LineLens : FileLog(len)
  \/ \E f \in SUBSET FsOps : FsChange(f)
  \/ \E mb \in RotateSizesMB, max \in 0..MaxKeepFiles : FileApplyConfig(mb, max)

\* FileSink(filepath, config) on a new <log_path> under the SIZE policy, with
\* a file system whose calls may fail: Init opens the file if fopen succeeds
InitFault ==
  /\ cfg = [capacity |-> 0, full_policy |-> "DROP", block_timeout_us |-> 0]
  /\ quota = [submit |-> 0, sync |-> 0, init |-> 0]
  /\ Started
  /\ fs_fail \in SUBSET FsOps
  /\ file_ = IF "fopen" \in fs_fail THEN NULL ELSE 1
  /\ files = [n \in Names |-> IF n = 0 /\ file_ # NULL THEN 0 ELSE NoFile]
  /\ current_file_size_ = 0
  /\ rotate_files_ = <<>>
  /\ rotate_i = 1
  /\ max_rotate_files_ \in 0..MaxKeepFiles
  /\ rotate_size_bytes_ \in {mb * MiB : mb \in RotateSizesMB}
  /\ rotate_policy_ = "SIZE"
  /\ clock = 0
  /\ next_rotation_tp_ = NextMidnight(clock)
  /\ written = [n \in Names |-> {}]
  /\ terminated = FALSE
  /\ fpc = "idle"

SpecFault == InitFault /\ [][NextFault]_vars

\* the worker enters FileSink::Log and passes the test of file_
FileLogEnter ==
  /\ Alive
  /\ fpc = "idle" /\ file_ # NULL
  /\ fpc' = "log"
  /\ UNCHANGED <<file_, files, current_file_size_, rotate_files_, rotate_i,
                 max_rotate_files_, rotate_size_bytes_, rotate_policy_,
                 next_rotation_tp_, clock, written, fs_fail, terminated, pipeVars, tpc, legacy>>

\* the rest of FileSink::Log: CheckRotate, Format, fwrite
FileLogBody(len) == fpc = "log" /\ FileLog(len)

NextApply ==
  \/ FileLogEnter
  \/ \E len \in LineLens : FileLogBody(len)
  \/ \E mb \in RotateSizesMB, max \in 0..MaxKeepFiles : FileApplyConfig(mb, max)

\* a FileSink on a new <log_path>, attached to the logger, whose ApplyConfig
\* the application calls while the worker writes
InitApply == InitFault /\ fs_fail = {}

SpecApply == InitApply /\ [][NextApply]_vars

(* --------------------------- level filtering --------------------------- *)

NextLevel ==
  \/ \E t \in Producers, lv \in Levels : LogSubmitBegin(t, lv)
  \/ \E t \in Producers, lv \in Levels : LogFiltered(t, lv)
  \/ \E lv \in Levels : SetLevel(lv)
  \/ \E t \in Producers : PushEnqueue(t)
  \/ \E t \in Producers : CommitFailed(t)
  \/ WorkerIter
  \/ WorkerDispatch

\* the running logger under DROP, logging at several levels while the
\* threshold is changed
InitLevel ==
  /\ cfg = [capacity |-> QueueCapacity, full_policy |-> "DROP", block_timeout_us |-> 0]
  /\ quota = [submit |-> LvSubmit, sync |-> 0, init |-> 0]
  /\ Started
  /\ NoFileSink

SpecLevel == InitLevel /\ [][NextLevel]_vars

\* HandleBackPressure: a pass of the wait loop during which the clock advances
BlockTick(t) == BlockLoop(t) /\ elapsed'[t] > elapsed[t]

\* fair scheduling: a thread that is inside a call keeps running, the worker
\* keeps running, and steady_clock advances; when the application calls
\* LogSubmit, Sync or Shutdown, and when its threads exit, is left open
Fairness ==
  /\ WF_vars(WorkerIter) /\ WF_vars(WorkerDispatch) /\ WF_vars(TimerLoop)
  /\ WF_vars(ShutdownSyncWait) /\ WF_vars(ShutdownReset)
  /\ WF_vars(ShutdownJoin) /\ WF_vars(ShutdownPoolReset)
  /\ \A t \in Producers :
       /\ WF_vars(PushEnqueue(t)) /\ WF_vars(BlockLoop(t)) /\ WF_vars(BlockTick(t))
       /\ WF_vars(CommitFailed(t)) /\ WF_vars(LogSubmitDangling(t))
       /\ WF_vars(SyncPush(t)) /\ WF_vars(SyncWait(t)) /\ WF_vars(FlushRun(t))

SpecFair == Spec /\ Fairness

(* ------------------ legacy AsyncLogSystem: rotation -------------------- *)

\* the threads that call rotateLogFile: the file worker (ProcessFileBatch) and
\* a caller of forceRotation
RotThreads == {"worker", "user"}

\* getCurrentTime("%Y%m%d")
CurrentDate(now) == now \div TicksPerDay

\* generateLogFileName
generateLogFileName(now, rotateCounts) == <<1, now, rotateCounts>>

\* generateDailyLogFileName
generateDailyLogFileName(date) == <<0, date, 0>>

\* the log_*.txt dir of the directory
LogFiles(dir) == {n \in LegacyNames : dir[n] # NoFile}

\* a write through logFile_: the file's modification time, if its path is
\* still in the directory
WriteLogFile(dir, name, now) ==
  IF dir[name] # NoFile THEN [dir EXCEPT ![name] = now] ELSE dir

\* mutant of FirstRemoved: one file more is kept
FirstRemovedNext(maxFileCount) == maxFileCount + 1

\* cleanupOldLogFiles: the index of the sorted list the removal starts at
FirstRemoved(maxFileCount) == maxFileCount

\* cleanupOldLogFiles: the dir that may be left, the newest by
\* last_write_time first; std::sort puts dir of equal time in any order
cleanupOldLogFiles(dir, maxFileCount) ==
  LET all == LogFiles(dir)
      keep == IF Cardinality(all) < FirstRemoved(maxFileCount)
              THEN Cardinality(all) ELSE FirstRemoved(maxFileCount)
  IN {K \in SUBSET all :
        /\ Cardinality(K) = keep
        /\ \A a \in K, b \in all \ K : dir[a] >= dir[b]}

\* needsRotation: the size test can turn out either way
needsRotation(l) ==
  /\ l.open
  /\ \/ l.rotationType_ \in {"BY_SIZE", "BY_SIZE_AND_TIME"}
     \/ CurrentDate(l.now) # l.lastRotationDate_

\* rotateLogFile up to the test of isRotating_: a call that finds a rotation
\* in progress returns false
rotateLogFileEnter(th) ==
  /\ Alive /\ th \notin legacy.rotating /\ legacy.calls > 0
  /\ th = "worker" => needsRotation(legacy)
  /\ legacy' = IF legacy.isRotating_
                THEN [legacy EXCEPT !.calls = @ - 1]
                ELSE [legacy EXCEPT !.calls = @ - 1, !.isRotating_ = TRUE,
                                    !.rotating = @ \cup {th}]
  /\ UNCHANGED <<fileVars, pipeVars, tpc>>

\* rotateLogFile under fileMtx_: the line written to the old file, the new
\* name, the new file opened and written, cleanupOldLogFiles, ++rotateCounts_
rotateLogFile(th) ==
  /\ Alive /\ th \in legacy.rotating
  /\ LET l == legacy
         date == CurrentDate(l.now)
         daily == l.rotationType_ \in {"BY_TIME", "BY_SIZE_AND_TIME"}
                    /\ date # l.lastRotationDate_
         newLogFile == IF daily THEN generateDailyLogFileName(date)
                       ELSE generateLogFileName(l.now, l.rotateCounts_)
         closed == IF l.open THEN WriteLogFile(l.files, l.currentLogFilePath_, l.now)
                   ELSE l.files
         opened == [closed EXCEPT ![newLogFile] = l.now]
     IN \E K \in cleanupOldLogFiles(opened, l.maxFileCount) :
          legacy' = [l EXCEPT
                       !.files = [n \in LegacyNames |->
                                    IF n \in K THEN opened[n] ELSE NoFile],
                       !.open = TRUE,
                       !.currentLogFilePath_ = newLogFile,
                       !.lastRotationDate_ = IF daily THEN date ELSE @,
                       !.rotateCounts_ = @ + 1,
                       !.isRotating_ = FALSE,
                       !.rotating = @ \ {th}]
  /\ UNCHANGED <<fileVars, pipeVars, tpc>>

\* ProcessFileBatch: writeFile, while no rotation holds fileMtx_
writeFile ==
  /\ Alive /\ legacy.open /\ legacy.rotating = {}
  /\ legacy' = [legacy EXCEPT
                  !.files = WriteLogFile(@, legacy.currentLogFilePath_, legacy.now)]
  /\ UNCHANGED <<fileVars, pipeVars, tpc>>

\* the clock advances
LegacyTick ==
  /\ Alive /\ legacy.now < LegacyClock
  /\ legacy' = [legacy EXCEPT !.now = @ + 1]
  /\ UNCHANGED <<fileVars, pipeVars, tpc>>

NextLegacy ==
  \/ \E th \in RotThreads : rotateLogFileEnter(th)
  \/ \E th \in RotThreads : rotateLogFile(th)
  \/ writeFile
  \/ LegacyTick

\* AsyncLogSystem::Init in a directory that holds files of earlier runs, then
\* setRotationType and setMaxFileCount: initializeLogFile has opened and
\* written log_<date>.txt
InitLegacy ==
  /\ cfg = [capacity |-> 0, full_policy |-> "BLOCK", block_timeout_us |-> 0]
  /\ quota = [submit |-> 0, sync |-> 0, init |-> 0]
  /\ LoggerStarted
  /\ NoFileSink
  /\ \E pre \in SUBSET {<<1, -1, n>> : n \in 0..LegacyMaxCount},
        type \in {"BY_SIZE", "BY_TIME", "BY_SIZE_AND_TIME"},
        max \in 0..LegacyMaxCount :
       legacy = [NoLegacy EXCEPT
                   !.files = [n \in LegacyNames |->
                                IF n \in pre \cup {generateDailyLogFileName(0)}
                                THEN 0 ELSE NoFile],
                   !.open = TRUE,
                   !.rotationType_ = type,
                   !.maxFileCount = max,
                   !.calls = MaxRotations]

SpecLegacy == InitLegacy /\ [][NextLegacy]_vars

(* ======================== properties checked ========================== *)

\* the records a sink has been passed
Delivered(s) == Range(sinkOut[s])

\* the records a Flush of the sink has covered
Flushed(s) == {sinkOut[s][i] : i \in 1..sinkFlushed[s]}

\* every LogSubmit call that got past the null check
Submitted == {<<t, n>> : t \in Producers, n \in 1..RunSubmit} \cap
             {r \in Producers \X Nat : r[2] <= nsub[r[1]]}

\* C1: per-thread FIFO. In every sink the records of one thread appear in the
\* order of their submission, and a record is passed to a sink only after every
\* record the same thread committed before it.
C1_PerThreadFifo ==
  \A s \in Sinks : \A j \in 1..Len(sinkOut[s]) :
    /\ \A i \in 1..(j - 1) :
         sinkOut[s][i][1] = sinkOut[s][j][1] => sinkOut[s][i][2] < sinkOut[s][j][2]
    /\ \A r \in committed :
         (r[1] = sinkOut[s][j][1] /\ r[2] < sinkOut[s][j][2])
           => \E i \in 1..(j - 1) : sinkOut[s][i] = r

\* two records of one thread have reached every sink
C1_Witness ==
  \A s \in Sinks : Len(sinkOut[s]) = 2 /\ sinkOut[s][1][1] = sinkOut[s][2][1]

\* C2: own-thread sync. Once AsyncLogger::Sync has returned to a thread, every
\* record that thread committed before the call has been passed to Log of every
\* sink and a Flush of every sink has come after it.
C2_OwnThreadSync ==
  \A t \in Producers :
    syncState[t] = "returned" =>
      \A r \in syncPrior[t] : r[1] = t => \A s \in Sinks : r \in Flushed(s)

\* Sync has returned to a thread that had committed a record before calling it
C2_Witness ==
  \E t \in Producers :
    syncState[t] = "returned" /\ \E r \in syncPrior[t] : r[1] = t

\* C3: cross-thread sync. Once Sync has returned to a thread, every record any
\* thread had enqueued before the barrier has been passed to every sink.
C3_CrossThreadSync ==
  \A t \in Producers :
    syncState[t] = "returned" =>
      \A r \in syncPrior[t] : \A s \in Sinks : r \in Delivered(s)

\* C4: shutdown drain. The worker has not exited while the queue holds a record,
\* and once Shutdown has returned every record whose Commit returned true has
\* been passed to every sink.
C4_ShutdownDrain ==
  /\ (wpc = "exited" /\ implLive) => size_approx(que_) = 0
  /\ apc = "down" => \A r \in committed : \A s \in Sinks : r \in Delivered(s)

\* C5: a LogSubmit call made after Shutdown has returned takes no buffer,
\* enqueues nothing, delivers nothing and leaves drop_cnt_ unchanged.
C5_IgnoredAfterShutdown ==
  [][(apc = "down" /\ quota'.submit # quota.submit)
       => UNCHANGED <<pool_, allocated, cache, tlsPool, msg, pc, que_, sinkOut,
                      sinkFlushed, drop_cnt_, committed, rejected>>]_vars

\* a LogSubmit call has been made after Shutdown returned
C5_Witness == apc = "down" /\ ignored > 0

\* C6: drop accounting. drop_cnt_ counts the submissions whose Commit returned
\* false (those whose AddDropCount is still to run excepted); it goes up by one
\* exactly when such a submission is counted, and neither a successful
\* submission nor a Sync changes it.
C6_DropAccounting ==
  /\ [](drop_cnt_ + Cardinality({t \in Producers : pc[t] = "rejected"})
          = Cardinality(rejected))
  /\ [][/\ drop_cnt_' >= drop_cnt_
        /\ committed' # committed => drop_cnt_' = drop_cnt_
        /\ syncState' # syncState => drop_cnt_' = drop_cnt_
        /\ \A t \in Producers :
             (pc[t] = "rejected" /\ pc'[t] # "rejected") => drop_cnt_' = drop_cnt_ + 1]_vars

\* one submission has been counted as dropped and another one committed
C6_Witness == drop_cnt_ = 1 /\ committed # {}

\* every producer is outside LogSubmit and Sync, and every producer that
\* submitted has returned from a Sync called after its last commit
AllSynced ==
  \A t \in Producers :
    /\ pc[t] = "idle"
    /\ nsub[t] > 0 =>
         /\ syncState[t] = "returned"
         /\ \A r \in committed : r[1] = t => r \in syncPrior[t]

\* C7: delivered or counted. No sink is passed a record twice; and once all
\* producers have finished and synced, every submitted record has either been
\* passed to every sink or been counted in drop_cnt_, never both.
C7_DeliveredOrCounted ==
  /\ \A s \in Sinks : \A i, j \in 1..Len(sinkOut[s]) :
       i # j => sinkOut[s][i] # sinkOut[s][j]
  /\ AllSynced =>
       /\ committed \cup rejected = Submitted
       /\ committed \cap rejected = {}
       /\ drop_cnt_ = Cardinality(rejected)
       /\ \A s \in Sinks :
            /\ Delivered(s) = committed
            /\ Len(sinkOut[s]) + drop_cnt_ = Cardinality(Submitted)

\* both producers have submitted and synced; one record was delivered and
\* the other one dropped
C7_Witness ==
  /\ AllSynced /\ nsub[1] = 1 /\ nsub[2] = 1
  /\ drop_cnt_ = 1 /\ \A s \in Sinks : Len(sinkOut[s]) = 1

\* the number of places that hold buffer b
RECURSIVE Occurrences(_, _)
Occurrences(seq, b) ==
  IF seq = <<>> THEN 0
  ELSE (IF Head(seq) = b THEN 1 ELSE 0) + Occurrences(Tail(seq), b)

InQueue == BufsOf(Concat(que_, <<MAIN, 1, 2>>))
InBatch == BufsOf(buffer_batch)
InCaches == cache[1] \o cache[2]
InProducers == BufsOf(<<msg[1], msg[2]>>)

Owners(b) ==
  Occurrences(pool_, b) + Occurrences(InCaches, b) + Occurrences(InProducers, b)
    + Occurrences(InQueue, b) + Occurrences(InBatch, b)

\* C8: exclusive ownership. Every LogBuffer ever allocated has exactly one owner
\* among the pool free list, a thread cache, a producer's message, a queued
\* record and a record of the worker's batch.
C8_ExclusiveOwnership ==
  ub = "no" => \A b \in 1..allocated : Owners(b) = 1

\* C9: buffer conservation. The buffers in queued records, held by producers
\* and thread caches, in the worker's batch and in the pool free list add up to
\* the number of buffers ever allocated.
C9_BufferConservation ==
  ub = "no" =>
    Len(InQueue) + Len(InProducers) + Len(InCaches) + Len(InBatch) + Len(pool_)
      = allocated

\* C10: with capacity 0 no Push enters HandleBackPressure or returns false.
C10_ZeroCapacityNeverRejects ==
  cfg.capacity = 0 =>
    /\ \A t \in Producers : pc[t] \notin {"block", "rejected"}
    /\ rejected = {}
    /\ drop_cnt_ = 0

\* with capacity 0 a Push has succeeded on a queue that already held a record
C10_Witness ==
  cfg.capacity = 0 /\ cfg.full_policy = "BLOCK" /\ size_approx(que_) = 2

\* the messages the queue holds
Queued == Range(Concat(que_, <<MAIN, 1, 2>>))

\* C11: under DROP with capacity > 0 a non-forced Push that observes
\* size >= capacity fails in the same step, without entering the wait loop and
\* without touching the queue; the record is never enqueued, and when LogSubmit
\* ends its buffer is back in the pool and the producer holds nothing.
C11_DropRejectsAtOnce ==
  /\ [](cfg.full_policy = "DROP" =>
          /\ \A t \in Producers : pc[t] # "block"
          /\ \A r \in rejected : r \notin committed /\ r \notin {RecId(m) : m \in Queued})
  /\ [][cfg.full_policy = "DROP" => \A t \in Producers :
          /\ (pc[t] = "idle" /\ pc'[t] \in {"rejected", "enqueue"}) =>
               /\ que_' = que_
               /\ pc'[t] = "rejected" <=>
                    (cfg.capacity > 0 /\ size_approx(que_) >= cfg.capacity)
          /\ (pc[t] = "rejected" /\ pc'[t] # "rejected") =>
               /\ que_' = que_
               /\ msg[t].buf \in Range(pool_')
               /\ msg'[t] = NoMsg]_vars

\* under DROP a record has been rejected and its buffer is back in the pool
C11_Witness ==
  /\ cfg.full_policy = "DROP" /\ rejected # {}
  /\ \A t \in Producers : pc[t] = "idle"

\* C12: under BLOCK a Push on a full queue fails only from the wait loop and
\* only once the elapsed time exceeds block_timeout_us; it leaves the loop to
\* enqueue only after observing size < capacity, and then enqueues its record
\* once; with the unbounded timeout no Push fails.
C12_BlockWaits ==
  /\ [](cfg.full_policy = "BLOCK" =>
          /\ cfg.block_timeout_us = kMaxBlockTimeout_us => rejected = {}
          /\ \A t \in Producers : pc[t] = "rejected" => elapsed[t] > cfg.block_timeout_us)
  /\ [][cfg.full_policy = "BLOCK" => \A t \in Producers :
          /\ pc'[t] = "rejected" => pc[t] \in {"block", "rejected"}
          /\ (pc[t] = "idle" /\ pc'[t] = "block") => size_approx(que_) >= cfg.capacity
          /\ (pc[t] = "block" /\ pc'[t] = "enqueue") => size_approx(que_) < cfg.capacity
          /\ (pc[t] = "block" /\ pc'[t] = "rejected") =>
               /\ size_approx(que_) >= cfg.capacity
               /\ elapsed'[t] > cfg.block_timeout_us
               /\ que_' = que_
          /\ (pc[t] = "block" /\ pc'[t] = "idle") => FALSE
          /\ (pc[t] = "enqueue" /\ pc'[t] # "enqueue") =>
               /\ RecId(msg[t]) \notin committed
               /\ que_' = [que_ EXCEPT ![t] = Append(@, msg[t])]
               /\ committed' = committed \cup {RecId(msg[t])}]_vars

\* under BLOCK with a finite timeout a submission has waited on a full queue,
\* slept, and then been enqueued
C12_Witness ==
  /\ cfg.full_policy = "BLOCK" /\ cfg.block_timeout_us = BlockTimeout
  /\ \E t \in Producers :
       pc[t] = "idle" /\ elapsed[t] > 0 /\ <<t, nsub[t]>> \in committed

\* C13: the forced Push of Sync never goes to HandleBackPressure: whatever the
\* size, the capacity and the policy, the barrier is enqueued in one step and
\* is never counted as dropped.
C13_ForcedPushBypasses ==
  /\ [](\A t \in Threads : syncState[t] # "backpressure")
  /\ [][\A t \in Producers :
          pc[t] = "sync_push" =>
            /\ pc'[t] \in {"sync_push", "sync_wait"}
            /\ pc'[t] = "sync_wait" =>
                 /\ que_' = [que_ EXCEPT ![t] = Append(@, FlushMessage(t))]
                 /\ drop_cnt_' = drop_cnt_ /\ rejected' = rejected]_vars

\* a barrier has been enqueued behind at least `capacity` messages of its own
\* thread: the forced Push found the queue full
C13_Witness ==
  /\ cfg.capacity > 0
  /\ \E t \in Producers :
       /\ Len(que_[t]) > cfg.capacity
       /\ que_[t][Len(que_[t])].level = FLUSH

\* C14: no deadlock. Under fair scheduling a thread waiting in Sync for its
\* barrier eventually stops waiting, and a thread in the BLOCK wait loop
\* eventually leaves it, also while Shutdown runs on the main thread.
C14_NoDeadlock ==
  \A t \in Producers :
    /\ (pc[t] = "sync_wait") ~> (pc[t] # "sync_wait" \/ ub # "no")
    /\ (pc[t] = "block") ~> (pc[t] # "block" \/ ub # "no")

\* C15: Init -> Shutdown -> Init is safe. A LogSubmit call that gets past the
\* null check runs on a thread_local cache that belongs to the logger's current
\* BufferPool, and touches no destroyed object.
C15_ReinitClean ==
  [][\A t \in Producers :
       nsub'[t] # nsub[t] => (tlsPool'[t] = buffer_pool_ /\ ub' = ub)]_vars

\* the logger holds no AsyncLogger and no BufferPool, as before the first Init
\* and after Shutdown
Stopped == impl_ = NULL /\ buffer_pool_ = NULL /\ ~implLive /\ ~poolLive

\* what the logger, the worker, the sinks, the pool and the threads hold
programVars ==
  <<impl_, buffer_pool_, implLive, poolLive, running_, que_, drop_cnt_, wpc,
    buffer_batch, bpos, sinkOut, sinkFlushed, pool_, allocated, cache, tlsPool,
    pc, msg, elapsed, promise, ub>>

\* C16: on a stopped logger a Flush or Sync call returns in the step that
\* makes it, a Shutdown call never waits for a barrier or for the worker, and
\* none of them enqueues anything or changes any state.
C16_StoppedCallsAreNoOps ==
  /\ [](Stopped => (apc # "sd_wait" /\ (apc = "sd_join" => wpc = "exited")))
  /\ [][Stopped =>
          /\ quota'.sync # quota.sync => UNCHANGED programVars
          /\ apc' # apc => UNCHANGED programVars]_vars

\* a second Shutdown is under way on a stopped logger on which Sync has been
\* called too
C16_Witness ==
  /\ Stopped /\ apc = "sd_pool"
  /\ \E t \in Producers : syncState[t] = "noop"

\* the messages that exist: in LogSubmit, in the queue, in the worker's batch
Messages == Queued \cup Range(buffer_batch) \cup {msg[t] : t \in Producers}

\* C17: a LOG_BASE call is submitted exactly when its level is at or above the
\* threshold in force at the call (the one the latest SetLevel set); a call
\* below it changes nothing: no buffer, no message, no delivery, no drop count;
\* and every message that exists has the level of a call that passed.
C17_LevelFilter ==
  /\ [](\A e \in levelLog : e.submitted <=> e.threshold <= e.lv)
  /\ [](\A m \in Messages :
          m.level \in Levels => \E e \in levelLog : e.submitted /\ e.lv = m.level)
  /\ [][\A e \in levelLog' \ levelLog :
          /\ e.threshold = level_
          /\ ~e.submitted => UNCHANGED programVars
          /\ e.submitted =>
               \E t \in Producers :
                 nsub'[t] = nsub[t] + 1 /\ pc'[t] \in {"enqueue", "rejected"}]_vars

\* calls at one level were filtered out under one threshold and submitted
\* under another, and a record has reached the sinks
C17_Witness ==
  /\ \E e1, e2 \in levelLog : e1.lv = e2.lv /\ e1.submitted /\ ~e2.submitted
  /\ \A s \in Sinks : Len(sinkOut[s]) = 1

\* the rotated files <log_path>_<N> that exist
RotatedFiles == {n \in 1..MaxIndex : files[n] # NoFile}

\* C18: retention. Once the sink has rotated, the files matching <log_path>*
\* other than <log_path> itself number at most max_rotate_files.
C18_Retention ==
  rotate_i > 1 => Cardinality(RotatedFiles) <= max_rotate_files_

C20_SmallestFreeIndex ==
  [][rotate_i' # rotate_i =>
       /\ files[rotate_i' - 1] = NoFile
       /\ \A n \in 1..(rotate_i' - 2) : files[n] # NoFile]_vars

\* the paths <log_path><date> that exist
DatedFiles == {d \in Days : files[DateName(d)] # NoFile}

\* C21: daily rotation. The write that rotates moves the records written
\* before midnight into one file named with the date of the day before (the
\* day they were written on), leaves only its own record in the active file,
\* and sets the next rotation to the following midnight.
C21_DailyRotation ==
  [][next_rotation_tp_' # next_rotation_tp_ =>
       /\ clock >= next_rotation_tp_
       /\ next_rotation_tp_' > clock
       /\ written'[0] = {CurrentTimeToString(clock)}
       /\ (/\ files[0] > 0 /\ max_rotate_files_ > 0
           /\ CurrentTimeToString(clock) = CurrentTimeToString(next_rotation_tp_)) =>
            /\ Cardinality(DatedFiles' \ DatedFiles) = 1
            /\ \A d \in DatedFiles' \ DatedFiles :
                 /\ written'[DateName(d)] = written[0]
                 /\ d = CurrentTimeToString(clock) - 1
                 /\ written'[DateName(d)] = {d}]_vars

\* C22: rotation failure. A rotation attempted while rename or remove fails
\* (and fopen works) lets no exception leave Log, leaves the sink with an open
\* active file that holds at least the bytes it held, and the write of that
\* Log call and of later ones still reaches the active file.
C22_RotationFailureAbsorbed ==
  /\ [](~terminated)
  /\ [][(file_ # NULL /\ "fopen" \notin fs_fail /\ rotate_i' # rotate_i) =>
          /\ file_' # NULL /\ files'[0] # NoFile
          /\ "rename" \in fs_fail => files'[0] > files[0]]_vars

\* C23: open failure. While file_ is null a Log call writes nothing and leaves
\* sizes and rotation state alone; a reopening that fails during a rotation
\* does the same; and an ApplyConfig made when the file can be opened again
\* opens it, so that later Log calls are written.
C23_OpenFailureSuppresses ==
  /\ [][file_ = NULL =>
          UNCHANGED <<files, current_file_size_, rotate_files_, rotate_i>>]_vars
  /\ [][(file_ # NULL /\ file_' = NULL /\ ~terminated') =>
          (ub' = ub /\ current_file_size_' = 0)]_vars
  /\ [][(/\ <<rotate_size_bytes_, max_rotate_files_>>' #
               <<rotate_size_bytes_, max_rotate_files_>>
         /\ "fopen" \notin fs_fail) => file_' # NULL]_vars

\* C24: payload length bound. The length stored for a formatted payload is at
\* most the buffer capacity and the terminator data[length] lies inside the
\* buffer, for payloads longer than SIZE - 1 too.
C24_LengthBound ==
  \A t \in Producers : length[t] <= SIZE /\ length[t] + 1 <= SIZE

\* C25: sink confinement. Every step that changes what a sink holds or has
\* flushed is a step of the worker on its current batch, and no user thread
\* is inside AsyncLogger::Flush while the worker is going through a batch.
C25_SinkConfinement ==
  /\ [][sinkVars' # sinkVars =>
          (wpc = "dispatch" /\ <<bpos, wpc>>' # <<bpos, wpc>>)]_vars
  /\ [](\A t \in Producers : pc[t] = "flush" => wpc # "dispatch")

\* C26: ApplyConfig mutual exclusion. The fields ApplyConfig writes change
\* only while the worker is outside FileSink::Log.
C26_ApplyConfigExclusion ==
  [][<<rotate_policy_, rotate_size_bytes_, max_rotate_files_>>' #
       <<rotate_policy_, rotate_size_bytes_, max_rotate_files_>> =>
       (fpc = "idle" /\ ub' = ub)]_vars

\* C27: hot reload frame. A reload made by the watch thread leaves every
\* setting other than the level as it was, whatever the file holds.
C27_HotReloadFrame ==
  [][last_load'.apply_all = FALSE => owned_config_' = owned_config_]_vars

\* a hot reload of a well-formed file that gives every key has changed the
\* level and nothing else
C27_Witness ==
  /\ last_load.apply_all = FALSE /\ last_load.ok
  /\ \A k \in Keys : last_load.file.keys[k] # <<>>
  /\ last_load.file.keys["queue_capacity"] = <<8>>
  /\ level_ = WARN /\ owned_config_ = Defaults

\* C28: failed load. LoadFromFile on a missing or unparseable file returns
\* false and leaves the level and every other setting as they were, in a hot
\* reload as well.
C28_FailedLoadKeepsConfig ==
  /\ [](last_load.file.kind \in {"missing", "malformed"} => ~last_load.ok)
  /\ [][(last_load' # last_load /\ last_load'.file.kind \in {"missing", "malformed"})
          => UNCHANGED <<level_, owned_config_>>]_vars

\* a hot reload of a file cut off after its keys has failed, after a full
\* load had changed the settings
C28_Witness ==
  /\ last_load.file.kind = "malformed" /\ ~last_load.apply_all /\ ~last_load.ok
  /\ last_load.file.level = <<"BAD">>
  /\ last_load.file.keys["queue_block_timeout_us"] = <<-1>>
  /\ level_ = WARN /\ owned_config_.queue_block_timeout_us = 8

\* C29: thread-exit return. When a producer thread exits, every buffer left
\* in its thread-local cache is put into the logger's live pool, before or
\* after Shutdown; a thread that never submitted has no cache to return.
C29_ExitReturnsBuffers ==
  [][\A t \in Producers :
       (pc[t] # "exited" /\ pc'[t] = "exited") =>
         /\ ub' = "no"
         /\ nsub[t] = 0 => cache[t] = <<>> /\ pool_' = pool_
         /\ cache[t] # <<>> =>
              (poolLive /\ Range(cache[t]) \subseteq Range(pool_'))]_vars

\* the buffers a producer holds or can obtain: the free list of the pool, the
\* messages waiting in the queue, the thread-local caches and the messages
\* under construction
Obtainable ==
  Range(pool_) \cup UNION {Range(BufsOf(que_[t])) : t \in Threads}
    \cup UNION {Range(cache[t]) : t \in Producers}
    \cup ({msg[t].buf : t \in Producers} \ {NULL})

\* C30: sink consumption precedes buffer reuse. While the worker is in its
\* range-for, no buffer of a record of buffer_batch that the sinks still have
\* to consume is in the pool's free list, in a thread's cache, in a message a
\* producer is building or in the queue; and a buffer enters the free list
\* from the batch only in a step after which every sink has logged its record.
C30_ConsumeBeforeReuse ==
  /\ [](wpc = "dispatch" =>
         Range(BufsOf(SubSeq(buffer_batch, bpos, Len(buffer_batch))))
           \cap Obtainable = {})
  /\ [][\A i \in 1..Len(buffer_batch) :
          (/\ buffer_batch[i].buf # NULL
           /\ buffer_batch[i].buf \in Range(pool_') \ Range(pool_))
            => \A s \in Sinks : RecId(buffer_batch[i]) \in Range(sinkOut'[s])]_vars

\* the worker is between the two records of a batch, the first one consumed by
\* every sink and the second one still to be consumed, while a producer has a
\* buffer of the pool at hand in its cache
C30_Witness ==
  /\ wpc = "dispatch" /\ bpos = 2 /\ Len(buffer_batch) = 2
  /\ buffer_batch[1].buf # NULL /\ buffer_batch[2].buf # NULL
  /\ \A s \in Sinks : RecId(buffer_batch[1]) \in Range(sinkOut[s])
  /\ \E t \in Producers : cache[t] # <<>>

\* C31: buffer acquisition never fails. Every LogSubmit that gets past the
\* null check obtains a buffer from Get without touching a destroyed pool: the
\* back of the thread's cache if it is not empty, else one of the
\* min(tls_buffer_count, free) buffers AllocBatch moves from the pool into the
\* cache, else a freshly allocated buffer when the pool is empty.
C31_GetNeverFails ==
  [][\A t \in Producers :
       nsub'[t] # nsub[t] =>
         /\ ub' = "no"
         /\ msg'[t].buf # NULL
         /\ cache[t] # <<>> =>
              /\ msg'[t].buf = cache[t][Len(cache[t])]
              /\ pool_' = pool_ /\ allocated' = allocated
         /\ (cache[t] = <<>> /\ pool_ # <<>>) =>
              /\ msg'[t].buf \in Range(pool_)
              /\ Len(pool_') = Len(pool_) - AllocBatchCount(pool_, TlsCount)
              /\ Len(cache'[t]) = AllocBatchCount(pool_, TlsCount) - 1
              /\ allocated' = allocated
         /\ (cache[t] = <<>> /\ pool_ = <<>>) =>
              /\ msg'[t].buf = allocated + 1
              /\ allocated' = allocated + 1]_vars

\* no producer thread is inside LogSubmit, Sync or Flush
Quiescent == \A t \in Producers : pc[t] \in {"idle", "exited"}

\* C32: Shutdown terminates. Once ~AsyncLogger has set running_ to false the
\* worker and the timer leave their loops and the joins complete; Shutdown then
\* returns when the producers have stopped calling, and in any case unless a
\* thread still inside a call reaches the destroyed logger. The worker leaves
\* its loop only with running_ false and an empty queue, the timer only with
\* running_ false.
C32_ShutdownTerminates ==
  /\ (apc = "sd_join" /\ implLive) ~>
       (apc = "sd_pool" /\ wpc = "exited" /\ tpc = "exited")
  /\ (apc = "sd_join" /\ implLive /\ Quiescent) ~> (apc = "down" /\ ub = "no")
  /\ (apc = "sd_pool") ~> (apc = "down" \/ ub # "no")
  /\ [][/\ (wpc # "exited" /\ wpc' = "exited") =>
             (~running_ /\ size_approx(que_) = 0)
        /\ (tpc # "exited" /\ tpc' = "exited") => ~running_]_vars

\* Shutdown has returned with both threads joined, after records were logged
C32_Witness ==
  /\ apc = "down" /\ wpc = "exited" /\ tpc = "exited" /\ ub = "no"
  /\ ~running_ /\ committed # {}

\* the messages of a sequence that are records, not barriers
Records(q) == {i \in 1..Len(q) : q[i].level # FLUSH}

\* C33: a flush barrier carries no buffer and reaches no sink's Log. No
\* barrier in the queue or in the batch has a buffer and no sink has been
\* passed one; the step that dispatches a barrier leaves every sink's output
\* as it is, flushes every sink and completes the waiter; and the destruction
\* of a batch or of the queue puts back one buffer per record, none for a
\* barrier.
C33_BarrierHasNoBuffer ==
  /\ [](\A t \in Threads : \A i \in 1..Len(que_[t]) :
          que_[t][i].level = FLUSH => que_[t][i].buf = NULL)
  /\ [](\A i \in 1..Len(buffer_batch) :
          buffer_batch[i].level = FLUSH => buffer_batch[i].buf = NULL)
  /\ [](\A s \in Sinks : \A i \in 1..Len(sinkOut[s]) : sinkOut[s][i][2] # 0)
  /\ [][/\ (/\ wpc = "dispatch" /\ <<wpc, bpos>>' # <<wpc, bpos>>
             /\ buffer_batch[bpos].level = FLUSH) =>
               /\ sinkOut' = sinkOut
               /\ \A s \in Sinks : sinkFlushed'[s] = Len(sinkOut[s])
               /\ promise'[buffer_batch[bpos].tid]
        /\ (wpc = "dispatch" /\ wpc' = "loop") =>
               Len(pool_') = Len(pool_) + Cardinality(Records(buffer_batch))
        /\ (apc = "sd_join" /\ apc' = "sd_pool") =>
               Len(pool_') = Len(pool_)
                 + Cardinality(Records(Concat(que_, <<MAIN, 1, 2>>)))]_vars

\* a batch of a barrier and a record has been dispatched and destroyed: the
\* waiter is released, the sinks are flushed, and the record is the only line
C33_Witness ==
  /\ \E t \in Producers : promise[t] /\ syncState[t] = "waiting"
  /\ \A s \in Sinks : Len(sinkOut[s]) = 1 /\ sinkFlushed[s] = 1
  /\ wpc = "loop" /\ buffer_batch = <<>> /\ Len(pool_) >= 1

\* C34: retention of the legacy AsyncLogSystem. Every rotation that runs
\* cleanupOldLogFiles leaves at most rotation.maxFileCount log_*.txt files in
\* the directory, the active file counted, and the number stays within the
\* limit until the next rotation, whichever thread rotates.
C34_LegacyRetention ==
  /\ [][legacy'.rotateCounts_ # legacy.rotateCounts_ =>
          Cardinality(LogFiles(legacy'.files)) <= legacy'.maxFileCount]_vars
  /\ [](legacy.rotateCounts_ > 0 =>
          Cardinality(LogFiles(legacy.files)) <= legacy.maxFileCount)

\* three calls have been made and two rotations have run with a limit of one
\* file: one file is left, and none of an earlier run
C34_Witness ==
  /\ legacy.rotateCounts_ = 2 /\ legacy.calls = 0
  /\ legacy.maxFileCount = 1
  /\ Cardinality(LogFiles(legacy.files)) = 1
  /\ legacy.files[<<1, -1, 0>>] = NoFile /\ legacy.files[<<1, -1, 1>>] = NoFile

\* C35: queue bound. With a capacity above 0 the queue never holds more
\* records (messages pushed without force) than its capacity, under DROP and
\* under BLOCK, whatever the number of producers.
C35_QueueBound ==
  cfg.capacity > 0 =>
    Cardinality(Records(Concat(que_, <<MAIN, 1, 2>>))) <= cfg.capacity

\* C36: no use after destruction at shutdown. Once Shutdown has destroyed the
\* AsyncLogger, and then the BufferPool, no producer thread is inside
\* LogSubmit past its null check (about to enqueue, waiting in
\* HandleBackPressure, or about to count and free a rejected record), and no
\* LogSubmit call reaches a destroyed object.
C36_NoUseAfterDestruction ==
  /\ [](~implLive => \A t \in Producers : pc[t] \notin {"enqueue", "block", "rejected"})
  /\ [][\A t \in Producers :
          (pc[t] \in {"enqueue", "block", "rejected"} /\ pc'[t] = "idle") => ub' = ub]_vars

\* C37: re-Init ordering. The pool of a session is released only after the
\* session's worker has stopped and its queue is drained: while the pool is
\* destroyed no record of the old queue or of the old worker's batch still
\* holds one of its buffers, and no buffer is freed into a destroyed pool.
C37_ReinitOrdering ==
  /\ [](~poolLive =>
         (BufsOf(Concat(que_, <<MAIN, 1, 2>>)) = <<>> /\ BufsOf(buffer_batch) = <<>>))
  /\ [][(wpc = "dispatch" \/ apc = "ri_join") => ub' = ub]_vars

\* C38: size tracking. While the sink has its file open, current_file_size_
\* is the number of bytes of the active file <log_path>, under the SIZE and
\* under the DAILY policy: the file's size at open, plus every write, and 0
\* after a rotation.
C38_SizeTracking ==
  file_ # NULL => current_file_size_ = files[0]

\* C39: sink-list race freedom. AddSink changes sinks_ only while the worker
\* is not inside its loop over sinks_, and the call touches nothing the worker
\* is reading.
C39_SinkListRaceFree ==
  [][sinks_' # sinks_ => (wpc # "sinks" /\ ub' = ub)]_vars

\* C40: GetDropCount is safe in every logger state. A GetDropCount call
\* returns without an access to an absent or destroyed AsyncLogger, while the
\* logger runs and after Shutdown (the state before Init).
C40_GetDropCountSafe ==
  [][\A t \in Producers :
       (pc[t] = "dropcount" /\ pc'[t] = "idle") => ub' = ub]_vars

====
